---- MODULE Spec2Model ----
(***************************************************************************)
(* Model of libnetfilter_log (src/src/libnetfilter_log.c): one session     *)
(* (struct nflog_handle), its list of group handles (gh_list), the         *)
(* configuration commands it sends and the dispatch of received messages   *)
(* to the group callbacks.                                                 *)
(***************************************************************************)
EXTENDS Integers, Sequences, FiniteSets, TLC

(***************************************************************************)
(* Bounds of the model.                                                    *)
(***************************************************************************)
\* number of struct nflog_g_handle objects the heap can hold: calloc fails
\* beyond it
MaxHandles == 3
\* number of framed messages in one receive buffer
MaxMsgs == 2
\* largest capacity of a buffer passed to nflog_snprintf_xml
MaxCap == 40

(***************************************************************************)
(* Values.                                                                 *)
(***************************************************************************)
\* the null pointer (a handle's cb and data after calloc)
NULL == "NULL"
\* group numbers the application binds: 1 and 256 are each other's byte swap
Groups == {1, 256, 7}
\* callback functions of the application
Callbacks == {"cbA", "cbB"}
\* user data pointers of the application
UserData == {NULL, "d1"}
\* values an application callback returns
CbRets == {-1, 0, 1}
\* errno values nfnl_query leaves behind when it fails
TransportErrnos == {"EPERM", "EOPNOTSUPP"}
\* errno(3) number of ENODEV
ENODEV == 19
\* NFULNL_CFG_CMD_* command codes
NFULNL_CFG_CMD_BIND == "NFULNL_CFG_CMD_BIND"
NFULNL_CFG_CMD_UNBIND == "NFULNL_CFG_CMD_UNBIND"

\* the unspecified protocol family
AF_UNSPEC == 0
\* NFULNL_COPY_PACKET: copy the packet up to copy_range bytes
NFULNL_COPY_PACKET == 2
\* protocol families the application passes to nflog_bind_pf and
\* nflog_unbind_pf (uint16_t): AF_UNSPEC, AF_INET, AF_INET6, 0x0102, 0xffff
Pfs == {0, 2, 10, 258, 65535}
\* copy modes the application passes to nflog_set_mode (uint8_t)
CopyModes == {0, 1, NFULNL_COPY_PACKET, 255}
\* uint32_t arguments of the application: 0, 4096, 0xffff, 0x12345678,
\* 0x19999999 (the largest whose tenfold fits 32 bits), 0x1999999a, 0xffffffff
U32Values ==
    {<<0, 0>>, <<0, 4096>>, <<0, 65535>>, <<4660, 22136>>,
     <<6553, 39321>>, <<6553, 39322>>, <<65535, 65535>>}
\* uint16_t flag words the application passes to nflog_set_flags
U16Values == {0, 1, 258, 65535}
\* what the byte of a structure that no statement assigns can hold
PadBytes == {0, 255}
\* what nfnl_rcvbufsiz can do: the resize succeeds, or fails with errno set
RcvbufOutcomes == {[ok |-> TRUE, err |-> "0"], [ok |-> FALSE, err |-> "EPERM"]}

\* the attributes of a log message the accessors read
Attrs ==
    {"NFULA_PACKET_HDR", "NFULA_MARK", "NFULA_TIMESTAMP", "NFULA_IFINDEX_INDEV",
     "NFULA_IFINDEX_OUTDEV", "NFULA_IFINDEX_PHYSINDEV", "NFULA_IFINDEX_PHYSOUTDEV",
     "NFULA_HWADDR", "NFULA_PAYLOAD", "NFULA_PREFIX", "NFULA_UID", "NFULA_SEQ",
     "NFULA_SEQ_GLOBAL", "NFULA_GID", "NFULA_CT"}
\* an entry of the attribute array nfad->nfa: a null pointer, or the
\* attribute with its payload
Absent == [present |-> FALSE, data |-> <<>>]
Attr(data) == [present |-> TRUE, data |-> data]
\* payloads of a 32-bit attribute, as the kernel writes them: 0, 1,
\* 0x01000000, 0x12345678, 0xffffffff
Wire32 ==
    {<<0, 0, 0, 0>>, <<0, 0, 0, 1>>, <<1, 0, 0, 0>>, <<18, 52, 86, 120>>,
     <<255, 255, 255, 255>>}
\* payloads of NFULA_TIMESTAMP (struct nfulnl_msg_packet_timestamp): sec
\* then usec, eight bytes each
WireTimestamps ==
    {<<0, 0, 0, 0, 0, 0, 0, 0, 0, 0, 0, 0, 0, 0, 0, 0>>,
     <<0, 0, 0, 0, 101, 76, 1, 2, 0, 0, 0, 0, 0, 15, 66, 63>>,
     <<1, 2, 3, 4, 5, 6, 7, 8, 9, 10, 11, 12, 13, 14, 15, 16>>}
\* payloads of NFULA_CT: the nested attributes, each with its type and
\* its payload (whose length is the length the attribute declares)
WireCts ==
    {<<>>,
     <<[type |-> "CTA_STATUS", data |-> <<0, 0, 0, 8>>]>>,
     <<[type |-> "CTA_ID", data |-> <<18, 52, 86, 120>>]>>,
     <<[type |-> "CTA_STATUS", data |-> <<0, 0, 0, 8>>],
       [type |-> "CTA_ID", data |-> <<0, 0, 0, 0>>]>>,
     <<[type |-> "CTA_ID", data |-> <<18, 52>>]>>,
     <<[type |-> "CTA_ID", data |-> <<1, 2, 3, 4, 5, 6, 7, 8>>]>>,
     <<[type |-> "CTA_ID", data |-> <<>>],
       [type |-> "CTA_ID", data |-> <<0, 0, 0, 9>>]>>}
\* the 32-bit attributes among Attrs
Attrs32 ==
    {"NFULA_MARK", "NFULA_IFINDEX_INDEV", "NFULA_IFINDEX_OUTDEV",
     "NFULA_IFINDEX_PHYSINDEV", "NFULA_IFINDEX_PHYSOUTDEV", "NFULA_UID",
     "NFULA_SEQ", "NFULA_SEQ_GLOBAL", "NFULA_GID"}
\* a message without attributes, and one that has the integer attributes,
\* each with a value of its own
NoAttrs == [a \in Attrs |-> Absent]
AllAttrs ==
    [NoAttrs EXCEPT
        !["NFULA_MARK"] = Attr(<<0, 0, 0, 11>>),
        !["NFULA_IFINDEX_INDEV"] = Attr(<<0, 0, 0, 2>>),
        !["NFULA_IFINDEX_OUTDEV"] = Attr(<<0, 0, 0, 3>>),
        !["NFULA_IFINDEX_PHYSINDEV"] = Attr(<<0, 0, 0, 4>>),
        !["NFULA_IFINDEX_PHYSOUTDEV"] = Attr(<<0, 0, 0, 5>>),
        !["NFULA_UID"] = Attr(<<0, 0, 3, 232>>),
        !["NFULA_GID"] = Attr(<<0, 0, 0, 100>>),
        !["NFULA_SEQ"] = Attr(<<0, 0, 0, 7>>),
        !["NFULA_SEQ_GLOBAL"] = Attr(<<0, 0, 0, 8>>),
        !["NFULA_TIMESTAMP"] =
            Attr(<<0, 0, 0, 0, 0, 0, 0, 6, 0, 0, 0, 0, 0, 0, 0, 9>>),
        !["NFULA_CT"] = Attr(<<[type |-> "CTA_ID", data |-> <<0, 0, 0, 12>>]>>)]
\* the messages the accessors are applied to: one of the two above with
\* one attribute replaced
NfadRecords ==
    UNION {
        {[bg EXCEPT ![a] = v] : a \in Attrs32, v \in {Absent} \cup {Attr(d) : d \in Wire32}}
        \cup {[bg EXCEPT !["NFULA_TIMESTAMP"] = v] :
                v \in {Absent} \cup {Attr(d) : d \in WireTimestamps}}
        \cup {[bg EXCEPT !["NFULA_CT"] = v] : v \in {Absent} \cup {Attr(d) : d \in WireCts}}
        : bg \in {NoAttrs, AllAttrs}}
\* what the caller's uint32_t and struct timeval hold before a call
OutValues == {<<0, 0>>, <<57005, 48879>>}
TvValues ==
    {[tv_sec |-> <<0, 0, 0, 0>>, tv_usec |-> <<0, 0, 0, 0>>],
     [tv_sec |-> <<0, 0, 0, 77>>, tv_usec |-> <<0, 0, 0, 78>>]}

\* the flags of nflog_snprintf_xml, each one bit of its flags argument
XmlFlags ==
    {"NFLOG_XML_PREFIX", "NFLOG_XML_HW", "NFLOG_XML_MARK", "NFLOG_XML_DEV",
     "NFLOG_XML_PHYSDEV", "NFLOG_XML_PAYLOAD", "NFLOG_XML_TIME", "NFLOG_XML_CTID"}
\* the flags arguments the application passes: no flag, one flag, all
\* flags but one, all flags (NFLOG_XML_ALL)
XmlFlagSets ==
    {f \in SUBSET XmlFlags : Cardinality(f) <= 1 \/ Cardinality(f) >= 7}
\* a message with its packet header (hw_protocol 0x0800, hook 1) alone
HdrOnly == [NoAttrs EXCEPT !["NFULA_PACKET_HDR"] = Attr(<<8, 0, 1, 0>>)]
\* a message with every attribute: hw_protocol 0x86dd, hook 3, a hardware
\* address of six bytes, the prefix "ab", a payload of two bytes
Rich ==
    [AllAttrs EXCEPT
        !["NFULA_PACKET_HDR"] = Attr(<<134, 221, 3, 0>>),
        !["NFULA_HWADDR"] = Attr(<<0, 6, 0, 0, 0, 17, 34, 170, 187, 204, 0, 0>>),
        !["NFULA_PREFIX"] = Attr(<<"a", "b", "NUL">>),
        !["NFULA_PAYLOAD"] = Attr(<<222, 173>>)]
\* one attribute and its payload: what a message of XmlRecords adds to
\* NoAttrs or HdrOnly
XmlVariations ==
    {<<"NFULA_MARK", Attr(<<0, 0, 0, 5>>)>>,
     <<"NFULA_MARK", Attr(<<0, 0, 0, 0>>)>>,
     <<"NFULA_MARK", Attr(<<255, 255, 255, 255>>)>>,
     <<"NFULA_IFINDEX_INDEV", Attr(<<0, 0, 0, 2>>)>>,
     <<"NFULA_IFINDEX_OUTDEV", Attr(<<0, 0, 1, 0>>)>>,
     <<"NFULA_IFINDEX_PHYSINDEV", Attr(<<0, 0, 0, 4>>)>>,
     <<"NFULA_IFINDEX_PHYSOUTDEV", Attr(<<0, 0, 0, 5>>)>>,
     <<"NFULA_PREFIX", Attr(<<"a", "b", "NUL">>)>>,
     <<"NFULA_PREFIX", Attr(<<"NUL">>)>>,
     <<"NFULA_HWADDR", Attr(<<0, 6, 0, 0, 0, 17, 34, 170, 187, 204, 0, 0>>)>>,
     <<"NFULA_HWADDR", Attr(<<0, 9, 0, 0, 1, 2, 3, 4, 5, 6, 7, 8>>)>>,
     <<"NFULA_CT", Attr(<<[type |-> "CTA_ID", data |-> <<0, 0, 0, 12>>]>>)>>,
     <<"NFULA_CT", Attr(<<[type |-> "CTA_ID", data |-> <<18, 52>>]>>)>>,
     <<"NFULA_TIMESTAMP",
       Attr(<<0, 0, 0, 0, 0, 0, 0, 6, 0, 0, 0, 0, 0, 0, 0, 9>>)>>,
     <<"NFULA_PAYLOAD", Attr(<<>>)>>,
     <<"NFULA_PAYLOAD", Attr(<<222, 173>>)>>,
     <<"NFULA_PAYLOAD", Attr(<<0, 15, 255>>)>>}
\* the messages nflog_snprintf_xml is applied to
XmlRecords ==
    {NoAttrs, HdrOnly, Rich}
    \cup {[bg EXCEPT ![v[1]] = v[2]] : bg \in {NoAttrs, HdrOnly}, v \in XmlVariations}
\* what localtime_r gives for the clock at the call: a broken-down time,
\* or a failure (ok false)
Clocks ==
    {[ok |-> TRUE, tm_hour |-> 0, tm_min |-> 0, tm_sec |-> 0, tm_wday |-> 4,
      tm_mday |-> 1, tm_mon |-> 0, tm_year |-> 70],
     [ok |-> TRUE, tm_hour |-> 23, tm_min |-> 59, tm_sec |-> 59, tm_wday |-> 6,
      tm_mday |-> 31, tm_mon |-> 11, tm_year |-> 126],
     [ok |-> FALSE, tm_hour |-> 0, tm_min |-> 0, tm_sec |-> 0, tm_wday |-> 0,
      tm_mday |-> 0, tm_mon |-> 0, tm_year |-> 0]}
\* a struct tm that no call has filled
NoClock ==
    [ok |-> FALSE, tm_hour |-> 0, tm_min |-> 0, tm_sec |-> 0, tm_wday |-> 0,
     tm_mday |-> 0, tm_mon |-> 0, tm_year |-> 0]
\* what a byte of memory behind an attribute can hold
BehindBytes == {0, 238}
\* what a byte of the caller's buffer holds before the call
Junk == "junk"

\* what nfnl_query can answer: 0 on acknowledgement, -1 with errno set
QueryOutcomes ==
    {[ret |-> 0, err |-> "0"]} \cup {[ret |-> -1, err |-> e] : e \in TransportErrnos}

VARIABLES
    gh_list,    \* h->gh_list: the group handles, head first
    nalloc,     \* struct nflog_g_handle objects allocated and not freed
    errno,      \* the C library's errno
    last,       \* the last call of the application: arguments and results
    registered, \* per group, the <<cb, data>> of the application's latest
                \* nflog_callback_register since the group was bound
    h           \* the struct nflog_handle of the session: 1, or 0 (NULL)
                \* when the application holds none

vars == <<gh_list, nalloc, errno, last, registered, h>>

(***************************************************************************)
(* Byte order.  A 16-bit field on the wire is two bytes, most significant  *)
(* first.                                                                  *)
(***************************************************************************)
htons(v) == <<(v \div 256) % 256, v % 256>>

ntohs_le(bytes) == bytes[2] * 256 + bytes[1]
ntohs(bytes) == bytes[1] * 256 + bytes[2]

\* A uint32_t is the pair <<hi, lo>> of its 16-bit halves, worth
\* hi * 65536 + lo.  A 32-bit field on the wire is four bytes, most
\* significant first.
htonl_le(v) == <<v[2] % 256, v[2] \div 256, v[1] % 256, v[1] \div 256>>
htonl(v) == <<v[1] \div 256, v[1] % 256, v[2] \div 256, v[2] % 256>>

ntohl_le(bytes) == <<bytes[4] * 256 + bytes[3], bytes[2] * 256 + bytes[1]>>
ntohl(bytes) == <<bytes[1] * 256 + bytes[2], bytes[3] * 256 + bytes[4]>>

\* k * v computed in uint32_t, as C does for an int constant k and a
\* uint32_t v: the product modulo 2^32
uint32_mul(k, v) ==
    LET lo == k * v[2]
    IN  <<(k * v[1] + lo \div 65536) % 65536, lo % 65536>>

(***************************************************************************)
(* The list of group handles.  A handle is the record of its fields; a     *)
(* pointer to a handle of the list is its position in the list, 0 is the   *)
(* null pointer.                                                           *)
(***************************************************************************)
RemoveAt(list, i) ==
    [k \in 1..(Len(list) - 1) |-> IF k < i THEN list[k] ELSE list[k + 1]]

del_gh_head(list, gh) ==
    IF list = <<>> THEN list ELSE Tail(list)
del_gh(list, gh) ==
    IF gh \in 1..Len(list) THEN RemoveAt(list, gh) ELSE list

add_gh(list, gh) == <<gh>> \o list

find_gh_head(list, group) ==
    IF list # <<>> /\ list[1].id = group THEN 1 ELSE 0
find_gh(list, group) ==
    IF \E i \in 1..Len(list) : list[i].id = group
    THEN CHOOSE i \in 1..Len(list) :
            /\ list[i].id = group
            /\ \A j \in 1..(i - 1) : list[j].id # group
    ELSE 0

(***************************************************************************)
(* Configuration commands.                                                 *)
(***************************************************************************)
\* the message built and the answer q of nfnl_query to it
__build_send_cfg_msg(command, groupnum, pf, q) ==
    [command |-> command, groupnum |-> groupnum % 65536, pf |-> pf % 256,
     ret |-> q.ret, err |-> q.err]

\* calloc of one group handle
calloc(n, ok) == ok /\ n < MaxHandles

nflog_bind_group_nocheck(list, n, e, num, callocOk, q) ==
    IF ~calloc(n, callocOk)
    THEN [gh_list |-> list, nalloc |-> n, errno |-> "ENOMEM", ret |-> 0, sent |-> <<>>]
    ELSE LET m == __build_send_cfg_msg(NFULNL_CFG_CMD_BIND, num, 0, q)
         IN  IF m.ret < 0
             THEN [gh_list |-> list, nalloc |-> n, errno |-> m.err,
                   ret |-> 0, sent |-> <<m>>]
             ELSE [gh_list |-> add_gh(list, [id |-> num, cb |-> NULL, data |-> NULL]),
                   nalloc |-> n + 1, errno |-> e, ret |-> 1, sent |-> <<m>>]
nflog_bind_group_keep(list, n, e, num, callocOk, q) ==
    IF find_gh(list, num) # 0
    THEN [gh_list |-> list, nalloc |-> n, errno |-> "EBUSY", ret |-> 0, sent |-> <<>>]
    ELSE IF ~calloc(n, callocOk)
    THEN [gh_list |-> list, nalloc |-> n, errno |-> "ENOMEM", ret |-> 0, sent |-> <<>>]
    ELSE LET m == __build_send_cfg_msg(NFULNL_CFG_CMD_BIND, num, 0, q)
         IN  [gh_list |-> add_gh(list, [id |-> num, cb |-> NULL, data |-> NULL]),
              nalloc |-> n + 1,
              errno |-> IF m.ret < 0 THEN m.err ELSE e,
              ret |-> 1, sent |-> <<m>>]
nflog_bind_group(list, n, e, num, callocOk, q) ==
    IF find_gh(list, num) # 0
    THEN [gh_list |-> list, nalloc |-> n, errno |-> "EBUSY", ret |-> 0, sent |-> <<>>]
    ELSE IF ~calloc(n, callocOk)
    THEN [gh_list |-> list, nalloc |-> n, errno |-> "ENOMEM", ret |-> 0, sent |-> <<>>]
    ELSE LET m == __build_send_cfg_msg(NFULNL_CFG_CMD_BIND, num, 0, q)
         IN  IF m.ret < 0
             THEN [gh_list |-> list, nalloc |-> n, errno |-> m.err,
                   ret |-> 0, sent |-> <<m>>]
             ELSE [gh_list |-> add_gh(list, [id |-> num, cb |-> NULL, data |-> NULL]),
                   nalloc |-> n + 1, errno |-> e, ret |-> 1, sent |-> <<m>>]

nflog_unbind_group_always(list, n, e, gh, q) ==
    LET m == __build_send_cfg_msg(NFULNL_CFG_CMD_UNBIND, list[gh].id, 0, q)
    IN  [gh_list |-> del_gh(list, gh), nalloc |-> n - 1,
         errno |-> IF m.ret < 0 THEN m.err ELSE e,
         ret |-> m.ret, sent |-> <<m>>]
nflog_unbind_group(list, n, e, gh, q) ==
    LET m == __build_send_cfg_msg(NFULNL_CFG_CMD_UNBIND, list[gh].id, 0, q)
    IN  IF m.ret = 0
        THEN [gh_list |-> del_gh(list, gh), nalloc |-> n - 1, errno |-> e,
              ret |-> m.ret, sent |-> <<m>>]
        ELSE [gh_list |-> list, nalloc |-> n,
              errno |-> IF m.ret < 0 THEN m.err ELSE e,
              ret |-> m.ret, sent |-> <<m>>]

nflog_callback_register_cb_only(list, gh, cb, data) ==
    [gh_list |-> [list EXCEPT ![gh].cb = cb], ret |-> 0]
nflog_callback_register(list, gh, cb, data) ==
    [gh_list |-> [list EXCEPT ![gh].data = data, ![gh].cb = cb], ret |-> 0]

\* nflog_bind_pf and nflog_unbind_pf: a command for group 0 and the family
nflog_bind_pf(e, pf, q) ==
    LET m == __build_send_cfg_msg("NFULNL_CFG_CMD_PF_BIND", 0, pf, q)
    IN  [errno |-> IF m.ret < 0 THEN m.err ELSE e, ret |-> m.ret, sent |-> <<m>>]

nflog_unbind_pf(e, pf, q) ==
    LET m == __build_send_cfg_msg("NFULNL_CFG_CMD_PF_UNBIND", 0, pf, q)
    IN  [errno |-> IF m.ret < 0 THEN m.err ELSE e, ret |-> m.ret, sent |-> <<m>>]

\* nfnl_fill_hdr: the header of a message for one family and resource id
nfnl_fill_hdr(family, res_id) ==
    [pf |-> family % 256, groupnum |-> res_id % 65536]

\* the message of a group's setter: the header, one attribute and its
\* payload bytes, and the answer q of nfnl_query to it
cfg_attr_query(nmh, attr, payload, q) ==
    [attr |-> attr, payload |-> payload, groupnum |-> nmh.groupnum,
     pf |-> nmh.pf, ret |-> q.ret, err |-> q.err]

\* struct nfulnl_msg_config_mode is copy_range, copy_mode and a padding
\* byte the function never assigns: pad is what that byte holds
nflog_set_mode(list, e, gh, mode, range, pad, q) ==
    LET m == cfg_attr_query(nfnl_fill_hdr(AF_UNSPEC, list[gh].id), "NFULA_CFG_MODE",
                            htonl(range) \o <<mode % 256, pad>>, q)
    IN  [errno |-> IF m.ret < 0 THEN m.err ELSE e, ret |-> m.ret, sent |-> <<m>>]

nflog_set_timeout(list, e, gh, timeout, q) ==
    LET m == cfg_attr_query(nfnl_fill_hdr(AF_UNSPEC, list[gh].id), "NFULA_CFG_TIMEOUT",
                            htonl(timeout), q)
    IN  [errno |-> IF m.ret < 0 THEN m.err ELSE e, ret |-> m.ret, sent |-> <<m>>]

nflog_set_qthresh(list, e, gh, qthresh, q) ==
    LET m == cfg_attr_query(nfnl_fill_hdr(AF_UNSPEC, list[gh].id), "NFULA_CFG_QTHRESH",
                            htonl(qthresh), q)
    IN  [errno |-> IF m.ret < 0 THEN m.err ELSE e, ret |-> m.ret, sent |-> <<m>>]

\* rcvbufsiz is the sequence of resize requests made to nfnl_rcvbufsiz
nflog_set_nlbufsiz_rcvret(list, e, gh, nlbufsiz, q, rcv) ==
    LET m == cfg_attr_query(nfnl_fill_hdr(AF_UNSPEC, list[gh].id), "NFULA_CFG_NLBUFSIZ",
                            htonl(nlbufsiz), q)
    IN  IF m.ret >= 0
        THEN [errno |-> IF rcv.ok THEN e ELSE rcv.err,
              ret |-> IF rcv.ok THEN m.ret ELSE -1, sent |-> <<m>>,
              rcvbufsiz |-> <<[size |-> uint32_mul(10, nlbufsiz), ok |-> rcv.ok]>>]
        ELSE [errno |-> m.err, ret |-> m.ret, sent |-> <<m>>, rcvbufsiz |-> <<>>]
nflog_set_nlbufsiz(list, e, gh, nlbufsiz, q, rcv) ==
    LET m == cfg_attr_query(nfnl_fill_hdr(AF_UNSPEC, list[gh].id), "NFULA_CFG_NLBUFSIZ",
                            htonl(nlbufsiz), q)
        status == m.ret
    IN  IF status >= 0
        THEN [errno |-> IF rcv.ok THEN e ELSE rcv.err,
              ret |-> status, sent |-> <<m>>,
              rcvbufsiz |-> <<[size |-> uint32_mul(10, nlbufsiz), ok |-> rcv.ok]>>]
        ELSE [errno |-> m.err, ret |-> status, sent |-> <<m>>, rcvbufsiz |-> <<>>]

nflog_set_flags(list, e, gh, flags, q) ==
    LET m == cfg_attr_query(nfnl_fill_hdr(AF_UNSPEC, list[gh].id), "NFULA_CFG_FLAGS",
                            htons(flags), q)
    IN  [errno |-> IF m.ret < 0 THEN m.err ELSE e, ret |-> m.ret, sent |-> <<m>>]

(***************************************************************************)
(* Accessors of a received message.  nfa is the attribute array of the     *)
(* message (nfad->nfa), indexed here by the attribute's name.               *)
(***************************************************************************)
\* nfnl_attr_present: the entry is not a null pointer
nfnl_attr_present(nfa, attr) == nfa[attr].present

\* nfnl_get_data(nfa, attr, uint32_t): the four bytes of the attribute's
\* payload as they lie in memory, those of a zero when the entry is null
nfnl_get_data(nfa, attr) ==
    IF nfa[attr].present THEN SubSeq(nfa[attr].data, 1, 4) ELSE <<0, 0, 0, 0>>

\* __be64_to_cpu of the eight bytes of a 64-bit field: its four 16-bit
\* limbs, most significant first
__be64_to_cpu(bytes) ==
    <<bytes[1] * 256 + bytes[2], bytes[3] * 256 + bytes[4],
      bytes[5] * 256 + bytes[6], bytes[7] * 256 + bytes[8]>>

nflog_get_nfmark(nfad) == ntohl(nfnl_get_data(nfad, "NFULA_MARK"))

nflog_get_indev(nfad) == ntohl(nfnl_get_data(nfad, "NFULA_IFINDEX_INDEV"))

nflog_get_physindev(nfad) == ntohl(nfnl_get_data(nfad, "NFULA_IFINDEX_PHYSINDEV"))

nflog_get_outdev(nfad) == ntohl(nfnl_get_data(nfad, "NFULA_IFINDEX_OUTDEV"))

nflog_get_physoutdev(nfad) == ntohl(nfnl_get_data(nfad, "NFULA_IFINDEX_PHYSOUTDEV"))

\* tv is what the caller's struct timeval holds before the call; the
\* result carries what it holds after (time_t and suseconds_t of 64 bits)
nflog_get_timestamp(nfad, tv) ==
    IF ~nfad["NFULA_TIMESTAMP"].present
    THEN [ret |-> -1, tv |-> tv]
    ELSE LET uts == nfad["NFULA_TIMESTAMP"].data
         IN  [ret |-> 0,
              tv |-> [tv_sec |-> __be64_to_cpu(SubSeq(uts, 1, 8)),
                      tv_usec |-> __be64_to_cpu(SubSeq(uts, 9, 16))]]

\* uid is what the caller's uint32_t holds before the call; out is what it
\* holds after
nflog_get_uid(nfad, uid) ==
    IF ~nfnl_attr_present(nfad, "NFULA_UID")
    THEN [ret |-> -1, out |-> uid]
    ELSE [ret |-> 0, out |-> ntohl(nfnl_get_data(nfad, "NFULA_UID"))]

nflog_get_gid(nfad, gid) ==
    IF ~nfnl_attr_present(nfad, "NFULA_GID")
    THEN [ret |-> -1, out |-> gid]
    ELSE [ret |-> 0, out |-> ntohl(nfnl_get_data(nfad, "NFULA_GID"))]

nflog_get_seq_nocheck(nfad, seq) ==
    [ret |-> 0, out |-> ntohl(nfnl_get_data(nfad, "NFULA_SEQ"))]
nflog_get_seq(nfad, seq) ==
    IF ~nfnl_attr_present(nfad, "NFULA_SEQ")
    THEN [ret |-> -1, out |-> seq]
    ELSE [ret |-> 0, out |-> ntohl(nfnl_get_data(nfad, "NFULA_SEQ"))]

nflog_get_seq_global(nfad, seq) ==
    IF ~nfnl_attr_present(nfad, "NFULA_SEQ_GLOBAL")
    THEN [ret |-> -1, out |-> seq]
    ELSE [ret |-> 0, out |-> ntohl(nfnl_get_data(nfad, "NFULA_SEQ_GLOBAL"))]

\* mnl_attr_for_each_nested with its break: the position of the first
\* nested attribute of type CTA_ID from position i on, 0 when there is none
RECURSIVE first_cta_id(_, _)
first_cta_id(nested, i) ==
    IF i > Len(nested) THEN 0
    ELSE IF nested[i].type = "CTA_ID" THEN i
    ELSE first_cta_id(nested, i + 1)

\* mnl_attr_validate(attr, MNL_TYPE_U32): the payload is exactly four bytes
mnl_attr_validate_any(attr) == 0
mnl_attr_validate(attr) == IF Len(attr.data) = 4 THEN 0 ELSE -1

\* mnl_attr_get_u32: the first four bytes at the attribute's payload; the
\* bytes behind a shorter payload are whatever follows it in the buffer
mnl_attr_get_u32(attr, behind) == SubSeq(attr.data \o behind, 1, 4)

nflog_get_ctid(nfad, e, id, behind) ==
    LET cta == nfad["NFULA_CT"]
    IN  IF ~cta.present
        THEN [ret |-> -1, out |-> id, errno |-> e]
        ELSE LET ida == first_cta_id(cta.data, 1)
             IN  IF ida = 0
                 THEN [ret |-> -1, out |-> id, errno |-> e]
                 ELSE IF mnl_attr_validate(cta.data[ida]) < 0
                 THEN [ret |-> -1, out |-> id, errno |-> "ERANGE"]
                 ELSE [ret |-> 0, errno |-> e,
                       out |-> ntohl(mnl_attr_get_u32(cta.data[ida], behind))]

(***************************************************************************)
(* Printing.  A string is the sequence of its characters; the byte of      *)
(* value zero that ends a C string is NUL.                                 *)
(***************************************************************************)
NUL == "NUL"

\* the digit of a value below 16, lowercase as printf's %x gives it
Digit(d) ==
    <<"0", "1", "2", "3", "4", "5", "6", "7", "8", "9",
      "a", "b", "c", "d", "e", "f">>[d + 1]

\* printf's %d and %u of a non-negative int
RECURSIVE fmt_d(_)
fmt_d(n) == IF n < 10 THEN <<Digit(n)>> ELSE fmt_d(n \div 10) \o <<Digit(n % 10)>>

\* printf's %02d of a non-negative int
fmt_02d(n) == IF n < 10 THEN <<"0">> \o fmt_d(n) ELSE fmt_d(n)

\* printf's %u of a uint32_t <<hi, lo>>
RECURSIVE fmt_u32(_)
fmt_u32(v) ==
    IF v[1] = 0 THEN fmt_d(v[2])
    ELSE LET t == (v[1] % 10) * 65536 + v[2]
         IN  fmt_u32(<<v[1] \div 10, t \div 10>>) \o <<Digit(t % 10)>>

\* printf's %02x of a byte and %04x of a 16-bit value
\* printf's %x: no leading zero
fmt_x(b) == IF b < 16 THEN <<Digit(b)>> ELSE <<Digit(b \div 16), Digit(b % 16)>>
fmt_02x(b) == <<Digit(b \div 16), Digit(b % 16)>>
fmt_04x(v) == fmt_02x(v \div 256) \o fmt_02x(v % 256)

\* printf's %s: the characters before the first NUL
RECURSIVE fmt_s(_)
fmt_s(str) ==
    IF str = <<>> \/ Head(str) = NUL THEN <<>>
    ELSE <<Head(str)>> \o fmt_s(Tail(str))

\* snprintf(buf + offset, rem, ...) of the formatted string str: at most
\* rem - 1 of its characters and a NUL are stored, nothing when rem is 0;
\* size is the value returned, n the number of bytes stored.  buf[i] is the
\* byte at index i - 1; a byte stored past the end of buf is not in buf.
snprintf_full(buf, offset, rem, str) ==
    LET k == IF Len(str) < rem THEN Len(str) ELSE rem
        stored == IF k < rem THEN SubSeq(str, 1, k) \o <<NUL>> ELSE SubSeq(str, 1, k)
        room == IF offset < Len(buf) THEN Len(buf) - offset ELSE 0
        inbuf == IF Len(stored) < room THEN Len(stored) ELSE room
    IN  [buf |-> SubSeq(buf, 1, Len(buf) - room) \o SubSeq(stored, 1, inbuf)
                 \o SubSeq(buf, Len(buf) - room + inbuf + 1, Len(buf)),
         size |-> Len(str), n |-> Len(stored)]
snprintf(buf, offset, rem, str) ==
    LET k == IF Len(str) < rem THEN Len(str) ELSE rem - 1
        stored == SubSeq(str, 1, k) \o <<NUL>>
        room == IF offset < Len(buf) THEN Len(buf) - offset ELSE 0
        inbuf == IF k + 1 < room THEN k + 1 ELSE room
    IN  IF rem = 0
        THEN [buf |-> buf, size |-> Len(str), n |-> 0]
        ELSE [buf |-> SubSeq(buf, 1, Len(buf) - room) \o SubSeq(stored, 1, inbuf)
                      \o SubSeq(buf, Len(buf) - room + inbuf + 1, Len(buf)),
              size |-> Len(str), n |-> k + 1]

\* SNPRINTF_FAILURE(ret, rem, offset, len) for ret >= 0 (snprintf into
\* memory returns no error): the three counters after the macro
SNPRINTF_FAILURE_offset(ret, rem, offset, len) ==
    LET clamped == IF ret > rem THEN rem ELSE ret
    IN  [len |-> len + ret, offset |-> offset + ret, rem |-> rem - clamped]
SNPRINTF_FAILURE_noclamp(ret, rem, offset, len) ==
    [len |-> len + ret, offset |-> offset + ret,
     rem |-> IF ret > rem THEN MaxCap + rem ELSE rem - ret]
SNPRINTF_FAILURE_lenclamp(ret, rem, offset, len) ==
    LET clamped == IF ret > rem THEN rem ELSE ret
    IN  [len |-> len + clamped, offset |-> offset + clamped, rem |-> rem - clamped]
SNPRINTF_FAILURE(ret, rem, offset, len) ==
    LET clamped == IF ret > rem THEN rem ELSE ret
    IN  [len |-> len + ret, offset |-> offset + clamped, rem |-> rem - clamped]

\* one fragment: size = snprintf(buf + offset, rem, ...) and the macro.
\* w is the writer: buf, the counters, and for each fragment so far what
\* was asked and stored (from, the index of the first byte stored, n, the
\* number of bytes stored) and the counters after it
write_fragment(w, str) ==
    LET sn == snprintf(w.buf, w.offset, w.rem, str)
        c == SNPRINTF_FAILURE(sn.size, w.rem, w.offset, w.len)
    IN  [buf |-> sn.buf, rem |-> c.rem, offset |-> c.offset, len |-> c.len,
         trace |-> Append(w.trace,
                          [size |-> sn.size, from |-> w.offset, n |-> sn.n,
                           rem |-> c.rem, offset |-> c.offset, len |-> c.len])]

\* the fragments one after the other; a fragment's length is never
\* negative, the test only orders the evaluation
RECURSIVE write_fragments(_, _)
write_fragments(w, frags) ==
    IF frags = <<>> THEN w
    ELSE LET next == write_fragment(w, Head(frags))
         IN  IF next.len >= 0 THEN write_fragments(next, Tail(frags)) ELSE next

\* the pointers the formatter asks for: the attribute, null when absent
nflog_get_msg_packet_hdr(nfad) == nfad["NFULA_PACKET_HDR"]

nflog_get_packet_hw(nfad) == nfad["NFULA_HWADDR"]

nflog_get_prefix(nfad) == nfad["NFULA_PREFIX"]

\* nflog_get_payload: the pointer and the length, -1 without the attribute
nflog_get_payload(nfad) ==
    IF nfad["NFULA_PAYLOAD"].present
    THEN [ret |-> Len(nfad["NFULA_PAYLOAD"].data), data |-> nfad["NFULA_PAYLOAD"].data]
    ELSE [ret |-> -1, data |-> <<>>]

\* hwph->hw_addr[i]: struct nfulnl_msg_packet_hw is hw_addrlen, _pad and
\* hw_addr[8]; an index past the attribute reads the byte that lies behind
\* it in memory
hw_addr(hwph, i, behind) ==
    IF 4 + i + 1 <= Len(hwph.data) THEN hwph.data[4 + i + 1] ELSE behind

\* the fragments of the <when> element for the broken-down time tm
when_fragments(tm) ==
    <<<<"<", "w", "h", "e", "n", ">">>,
      <<"<", "h", "o", "u", "r", ">">> \o fmt_d(tm.tm_hour) \o <<"<", "/", "h", "o", "u", "r", ">">>,
      <<"<", "m", "i", "n", ">">> \o fmt_02d(tm.tm_min) \o <<"<", "/", "m", "i", "n", ">">>,
      <<"<", "s", "e", "c", ">">> \o fmt_02d(tm.tm_sec) \o <<"<", "/", "s", "e", "c", ">">>,
      <<"<", "w", "d", "a", "y", ">">> \o fmt_d(tm.tm_wday + 1) \o <<"<", "/", "w", "d", "a", "y", ">">>,
      <<"<", "d", "a", "y", ">">> \o fmt_d(tm.tm_mday) \o <<"<", "/", "d", "a", "y", ">">>,
      <<"<", "m", "o", "n", "t", "h", ">">> \o fmt_d(tm.tm_mon + 1) \o <<"<", "/", "m", "o", "n", "t", "h", ">">>,
      <<"<", "y", "e", "a", "r", ">">> \o fmt_d(1900 + tm.tm_year) \o <<"<", "/", "y", "e", "a", "r", ">">>,
      <<"<", "/", "w", "h", "e", "n", ">">>>>

\* the fragments of the hook and hardware elements
hw_fragments(tb, flags, behind) ==
    LET ph == nflog_get_msg_packet_hdr(tb)
        hwph == nflog_get_packet_hw(tb)
        hlen == ntohs(SubSeq(hwph.data, 1, 2))
        proto == <<"<", "h", "w", ">", "<", "p", "r", "o", "t", "o", ">">> \o fmt_04x(ntohs(SubSeq(ph.data, 1, 2))) \o <<"<", "/", "p", "r", "o", "t", "o", ">">>
    IN  IF ~ph.present THEN <<>>
        ELSE <<<<"<", "h", "o", "o", "k", ">">> \o fmt_d(ph.data[3]) \o <<"<", "/", "h", "o", "o", "k", ">">>>> \o
             (IF hwph.present /\ "NFLOG_XML_HW" \in flags
              THEN <<proto, <<"<", "s", "r", "c", ">">>>> \o
                   [i \in 1..hlen |-> fmt_02x(hw_addr(hwph, i - 1, behind))] \o
                   <<<<"<", "/", "s", "r", "c", ">", "<", "/", "h", "w", ">">>>>
              ELSE IF "NFLOG_XML_HW" \in flags
              THEN <<proto \o <<"<", "/", "h", "w", ">">>>>
              ELSE <<>>)

\* a fragment <name>%u</name> that is printed for every nonzero value
u32_fragment_noflag(v, flag, flags, open, close) ==
    IF v # <<0, 0>> THEN <<open \o fmt_u32(v) \o close>> ELSE <<>>

\* one fragment <name>%u</name> for a nonzero value under a flag
u32_fragment(v, flag, flags, open, close) ==
    IF v # <<0, 0>> /\ flag \in flags THEN <<open \o fmt_u32(v) \o close>> ELSE <<>>

\* the fragments of the payload element
payload_fragments(tb, flags) ==
    LET p == nflog_get_payload(tb)
    IN  IF p.ret >= 0 /\ "NFLOG_XML_PAYLOAD" \in flags
        THEN <<<<"<", "p", "a", "y", "l", "o", "a", "d", ">">>>> \o [i \in 1..p.ret |-> fmt_02x(p.data[i] % 256)] \o
             <<<<"<", "/", "p", "a", "y", "l", "o", "a", "d", ">">>>>
        ELSE <<>>

\* the strings nflog_snprintf_xml formats, in the order of its snprintf
\* calls, when localtime_r succeeds
xml_fragments(tb, flags, tm, behind) ==
    LET prefix == nflog_get_prefix(tb)
        ct == nflog_get_ctid(tb, "0", <<0, 0>>, <<behind, behind, behind, behind>>)
    IN  <<<<"<", "l", "o", "g", ">">>>> \o
        (IF "NFLOG_XML_TIME" \in flags THEN when_fragments(tm) ELSE <<>>) \o
        (IF prefix.present /\ "NFLOG_XML_PREFIX" \in flags
         THEN <<<<"<", "p", "r", "e", "f", "i", "x", ">">> \o fmt_s(prefix.data) \o <<"<", "/", "p", "r", "e", "f", "i", "x", ">">>>> ELSE <<>>) \o
        hw_fragments(tb, flags, behind) \o
        u32_fragment(nflog_get_nfmark(tb), "NFLOG_XML_MARK", flags,
                     <<"<", "m", "a", "r", "k", ">">>, <<"<", "/", "m", "a", "r", "k", ">">>) \o
        u32_fragment(nflog_get_indev(tb), "NFLOG_XML_DEV", flags,
                     <<"<", "i", "n", "d", "e", "v", ">">>, <<"<", "/", "i", "n", "d", "e", "v", ">">>) \o
        u32_fragment(nflog_get_outdev(tb), "NFLOG_XML_DEV", flags,
                     <<"<", "o", "u", "t", "d", "e", "v", ">">>, <<"<", "/", "o", "u", "t", "d", "e", "v", ">">>) \o
        u32_fragment(nflog_get_physindev(tb), "NFLOG_XML_PHYSDEV", flags,
                     <<"<", "p", "h", "y", "s", "i", "n", "d", "e", "v", ">">>,
                     <<"<", "/", "p", "h", "y", "s", "i", "n", "d", "e", "v", ">">>) \o
        u32_fragment(nflog_get_physoutdev(tb), "NFLOG_XML_PHYSDEV", flags,
                     <<"<", "p", "h", "y", "s", "o", "u", "t", "d", "e", "v", ">">>,
                     <<"<", "/", "p", "h", "y", "s", "o", "u", "t", "d", "e", "v", ">">>) \o
        (IF "NFLOG_XML_CTID" \in flags /\ ct.ret >= 0
         THEN <<<<"<", "c", "t", "i", "d", ">">> \o fmt_u32(ct.out) \o <<"<", "/", "c", "t", "i", "d", ">">>>> ELSE <<>>) \o
        payload_fragments(tb, flags) \o
        <<<<"<", "/", "l", "o", "g", ">">>>>

\* a formatter that takes the hour from the record's timestamp when the
\* record has one
nflog_snprintf_xml_rectime(buf, rem, tb, flags, tm, behind, e) ==
    LET w0 == [buf |-> buf, rem |-> rem, offset |-> 0, len |-> 0, trace |-> <<>>]
        ts == tb["NFULA_TIMESTAMP"]
        tmr == IF ts.present THEN [tm EXCEPT !.tm_hour = ts.data[8] % 24] ELSE tm
        w == write_fragments(w0, xml_fragments(tb, flags, tmr, behind))
    IN  [w |-> w, ret |-> w.len, errno |-> e]

\* nflog_snprintf_xml(buf, rem, tb, flags): buf is what the caller's buffer
\* of rem bytes holds before the call, tm what localtime_r gives for the
\* clock (ok: it succeeded).  The result is the writer after the last
\* fragment and the value returned.
nflog_snprintf_xml(buf, rem, tb, flags, tm, behind, e) ==
    LET w0 == [buf |-> buf, rem |-> rem, offset |-> 0, len |-> 0, trace |-> <<>>]
        ct == nflog_get_ctid(tb, e, <<0, 0>>, <<behind, behind, behind, behind>>)
    IN  IF "NFLOG_XML_TIME" \in flags /\ ~tm.ok
        THEN [w |-> write_fragments(w0, <<<<"<", "l", "o", "g", ">">>>>), ret |-> -1,
              errno |-> "EOVERFLOW"]
        ELSE LET w == write_fragments(w0, xml_fragments(tb, flags, tm, behind))
             IN  [w |-> w, ret |-> w.len,
                  errno |-> IF "NFLOG_XML_CTID" \in flags THEN ct.errno ELSE e]

(***************************************************************************)
(* Dispatch.  A framed message is [nlh, res_id]: nlh names the message     *)
(* (its position in the buffer), res_id is the two bytes of the resource   *)
(* id of its nfgenmsg.  The attribute array nfa the transport parsed from  *)
(* message nlh is named by nlh too.  cbret is what the application's       *)
(* callback returns if it is called for this message.                      *)
(***************************************************************************)
__nflog_rcv_pkt_ret0(list, msg, cbret) ==
    LET group == ntohs(msg.res_id)
        gh == find_gh(list, group)
    IN  IF gh = 0 \/ list[gh].cb = NULL
        THEN [ret |-> -ENODEV, calls |-> <<>>]
        ELSE [ret |-> 0,
              calls |-> <<[cb |-> list[gh].cb, gh |-> gh, nfmsg |-> msg.nlh,
                           nfa |-> msg.nlh, data |-> list[gh].data,
                           ret |-> cbret]>>]
__nflog_rcv_pkt_miss_ok(list, msg, cbret) ==
    LET group == ntohs(msg.res_id)
        gh == find_gh(list, group)
    IN  IF gh = 0 \/ list[gh].cb = NULL
        THEN [ret |-> 0, calls |-> <<>>]
        ELSE [ret |-> cbret,
              calls |-> <<[cb |-> list[gh].cb, gh |-> gh, nfmsg |-> msg.nlh,
                           nfa |-> msg.nlh, data |-> list[gh].data,
                           ret |-> cbret]>>]
__nflog_rcv_pkt_nocheck(list, msg, cbret) ==
    LET group == ntohs(msg.res_id)
        gh == find_gh(list, group)
    IN  IF gh = 0
        THEN [ret |-> -ENODEV, calls |-> <<>>]
        ELSE [ret |-> cbret,
              calls |-> <<[cb |-> list[gh].cb, gh |-> gh, nfmsg |-> msg.nlh,
                           nfa |-> msg.nlh, data |-> list[gh].data,
                           ret |-> cbret]>>]
__nflog_rcv_pkt(list, msg, cbret) ==
    LET group == ntohs(msg.res_id)
        gh == find_gh(list, group)
    IN  IF gh = 0
        THEN [ret |-> -ENODEV, calls |-> <<>>]
        ELSE IF list[gh].cb = NULL
        THEN [ret |-> -ENODEV, calls |-> <<>>]
        ELSE [ret |-> cbret,
              calls |-> <<[cb |-> list[gh].cb, gh |-> gh, nfmsg |-> msg.nlh,
                           nfa |-> msg.nlh, data |-> list[gh].data,
                           ret |-> cbret]>>]

\* nflog_handle_packet hands the buffer to libnfnetlink's nfnl_handle_packet,
\* whose code is not part of this library.  Its walk is modelled as
\* nflog_handle_packet documents it: the packet callback that nflog_open_nfnl
\* registered (__nflog_rcv_pkt) is triggered for each message of the buffer in
\* arrival order; the first negative return of it ends the walk with -1; the
\* end of the buffer gives 0.  The walk sees only the value __nflog_rcv_pkt
\* returns, so it cannot tell a dispatch miss from a callback's own negative
\* return.
RECURSIVE nfnl_handle_packet_from(_, _, _, _)
nfnl_handle_packet_from(list, buf, rets, i) ==
    IF i > Len(buf)
    THEN [ret |-> 0, rcv |-> <<>>]
    ELSE LET r == __nflog_rcv_pkt(list, [nlh |-> i, res_id |-> buf[i]], rets[i])
             e == [nlh |-> i, res_id |-> buf[i], ret |-> r.ret, calls |-> r.calls]
         IN  IF r.ret < 0
             THEN [ret |-> -1, rcv |-> <<e>>]
             ELSE LET rest == nfnl_handle_packet_from(list, buf, rets, i + 1)
                  IN  [ret |-> rest.ret, rcv |-> <<e>> \o rest.rcv]

nfnl_handle_packet(list, buf, rets) ==
    nfnl_handle_packet_from(list, buf, rets, 1)

nflog_handle_packet(list, buf, rets) == nfnl_handle_packet(list, buf, rets)

(***************************************************************************)
(* Opening and closing the session.  closed is the sequence of the results *)
(* of the nfnl_close calls made, opened tells whether nfnl_open gave a     *)
(* transport connection.                                                   *)
(***************************************************************************)
\* a close that also unbinds and releases the group handles
nflog_close_unbind(list, n, e, closeRet) ==
    [h |-> 0, gh_list |-> <<>>, nalloc |-> 0, ret |-> closeRet,
     errno |-> IF closeRet < 0 THEN "EBADF" ELSE e,
     sent |-> [i \in 1..Len(list) |->
                  __build_send_cfg_msg(NFULNL_CFG_CMD_UNBIND, list[i].id, 0,
                                       [ret |-> 0, err |-> "0"])],
     closed |-> <<closeRet>>]

\* nflog_close(h): closeRet is what nfnl_close returns
nflog_close(list, n, e, closeRet) ==
    [h |-> 0, gh_list |-> list, nalloc |-> n, ret |-> closeRet,
     errno |-> IF closeRet < 0 THEN "EBADF" ELSE e,
     sent |-> <<>>, closed |-> <<closeRet>>]

\* nflog_open_nfnl(nfnlh): callocOk, subsysOk and cbOk tell whether calloc,
\* nfnl_subsys_open and nfnl_callback_register succeed
nflog_open_nfnl(e, callocOk, subsysOk, cbOk) ==
    IF ~callocOk THEN [h |-> 0, closed |-> <<>>, errno |-> "ENOMEM"]
    ELSE IF ~subsysOk THEN [h |-> 0, closed |-> <<>>, errno |-> "EBUSY"]
    ELSE IF ~cbOk THEN [h |-> 0, closed |-> <<0>>, errno |-> "EINVAL"]
    ELSE [h |-> 1, closed |-> <<>>, errno |-> e]

\* nflog_open(): openOk tells whether nfnl_open succeeds; again is what an
\* nfnl_close of a connection that is closed already returns
nflog_open(list, e, openOk, callocOk, subsysOk, cbOk, again) ==
    IF ~openOk
    THEN [h |-> 0, gh_list |-> list, opened |-> FALSE, closed |-> <<>>, errno |-> "EPROTONOSUPPORT"]
    ELSE LET lh == nflog_open_nfnl(e, callocOk, subsysOk, cbOk)
         IN  IF lh.h = 0
             THEN [h |-> 0, gh_list |-> list, opened |-> TRUE,
                   closed |-> lh.closed \o <<IF lh.closed = <<>> THEN 0 ELSE again>>,
                   errno |-> lh.errno]
             ELSE [h |-> lh.h, gh_list |-> <<>>, opened |-> TRUE, closed |-> <<>>,
                   errno |-> lh.errno]

(***************************************************************************)
(* The session's state machine.  The application makes one call at a time: *)
(* a call runs to its return, last holds its arguments and results, and    *)
(* Return hands control back to the application, which then makes its next *)
(* call.                                                                   *)
(***************************************************************************)
Idle ==
    [op |-> "idle", num |-> 0, gh |-> 0, cb |-> NULL, data |-> NULL,
     ret |-> 0, sent |-> <<>>, buf |-> <<>>, rcv |-> <<>>,
     pf |-> 0, mode |-> 0, u32 |-> <<0, 0>>, u16 |-> 0, rcvbufsiz |-> <<>>,
     nfad |-> NoAttrs, val |-> <<0, 0>>, out0 |-> <<0, 0>>, out |-> <<0, 0>>,
     tv0 |-> [tv_sec |-> <<0, 0, 0, 0>>, tv_usec |-> <<0, 0, 0, 0>>],
     tv |-> [tv_sec |-> <<0, 0, 0, 0>>, tv_usec |-> <<0, 0, 0, 0>>],
     flags |-> {}, cap |-> 0, tm |-> NoClock, behind |-> 0, xml |-> <<>>,
     trace |-> <<>>, hwread |-> {}, opened |-> FALSE, closed |-> <<>>]

\* after nflog_open: calloc zeroed the session, no group is bound
Init ==
    /\ gh_list = <<>>
    /\ nalloc = 0
    /\ errno = "0"
    /\ last = Idle
    /\ registered = [g \in Groups |-> <<>>]
    /\ h = 1

BindGroup ==
    /\ last = Idle
    /\ h # 0
    /\ UNCHANGED h
    /\ \E num \in Groups, callocOk \in BOOLEAN, q \in QueryOutcomes :
        LET r == nflog_bind_group(gh_list, nalloc, errno, num, callocOk, q)
        IN  /\ gh_list' = r.gh_list
            /\ nalloc' = r.nalloc
            /\ errno' = r.errno
            /\ last' = [Idle EXCEPT !.op = "nflog_bind_group", !.num = num,
                                    !.ret = r.ret, !.sent = r.sent]
            /\ registered' = IF r.ret # 0
                             THEN [registered EXCEPT ![num] = <<NULL, NULL>>]
                             ELSE registered

UnbindGroup ==
    /\ last = Idle
    /\ h # 0
    /\ UNCHANGED h
    /\ \E gh \in 1..Len(gh_list), q \in QueryOutcomes :
        LET r == nflog_unbind_group(gh_list, nalloc, errno, gh, q)
        IN  /\ gh_list' = r.gh_list
            /\ nalloc' = r.nalloc
            /\ errno' = r.errno
            /\ last' = [Idle EXCEPT !.op = "nflog_unbind_group", !.gh = gh,
                                    !.num = gh_list[gh].id,
                                    !.ret = r.ret, !.sent = r.sent]
            /\ registered' = IF r.ret = 0
                             THEN [registered EXCEPT ![gh_list[gh].id] = <<>>]
                             ELSE registered

CallbackRegister ==
    /\ last = Idle
    /\ UNCHANGED h
    /\ \E gh \in 1..Len(gh_list), cb \in Callbacks \cup {NULL}, data \in UserData :
        LET r == nflog_callback_register(gh_list, gh, cb, data)
        IN  /\ gh_list' = r.gh_list
            /\ UNCHANGED <<nalloc, errno>>
            /\ last' = [Idle EXCEPT !.op = "nflog_callback_register", !.gh = gh,
                                    !.num = gh_list[gh].id,
                                    !.cb = cb, !.data = data, !.ret = r.ret]
            /\ registered' = [registered EXCEPT ![gh_list[gh].id] = <<cb, data>>]

HandlePacket ==
    /\ last = Idle
    /\ h # 0
    /\ UNCHANGED h
    /\ \E n \in 1..MaxMsgs :
       \E buf \in [1..n -> {htons(g) : g \in Groups}], rets \in [1..n -> CbRets] :
        LET r == nflog_handle_packet(gh_list, buf, rets)
        IN  /\ UNCHANGED <<gh_list, nalloc, errno, registered>>
            /\ last' = [Idle EXCEPT !.op = "nflog_handle_packet", !.buf = buf,
                                    !.ret = r.ret, !.rcv = r.rcv]

BindPf ==
    /\ last = Idle
    /\ h # 0
    /\ UNCHANGED h
    /\ \E pf \in Pfs, q \in QueryOutcomes :
        LET r == nflog_bind_pf(errno, pf, q)
        IN  /\ UNCHANGED <<gh_list, nalloc, registered>>
            /\ errno' = r.errno
            /\ last' = [Idle EXCEPT !.op = "nflog_bind_pf", !.pf = pf,
                                    !.ret = r.ret, !.sent = r.sent]

UnbindPf ==
    /\ last = Idle
    /\ h # 0
    /\ UNCHANGED h
    /\ \E pf \in Pfs, q \in QueryOutcomes :
        LET r == nflog_unbind_pf(errno, pf, q)
        IN  /\ UNCHANGED <<gh_list, nalloc, registered>>
            /\ errno' = r.errno
            /\ last' = [Idle EXCEPT !.op = "nflog_unbind_pf", !.pf = pf,
                                    !.ret = r.ret, !.sent = r.sent]

SetMode ==
    /\ last = Idle
    /\ h # 0
    /\ UNCHANGED h
    /\ \E gh \in 1..Len(gh_list), mode \in CopyModes, range \in U32Values,
          pad \in PadBytes, q \in QueryOutcomes :
        LET r == nflog_set_mode(gh_list, errno, gh, mode, range, pad, q)
        IN  /\ UNCHANGED <<gh_list, nalloc, registered>>
            /\ errno' = r.errno
            /\ last' = [Idle EXCEPT !.op = "nflog_set_mode", !.gh = gh,
                                    !.num = gh_list[gh].id, !.mode = mode,
                                    !.u32 = range, !.ret = r.ret, !.sent = r.sent]

SetTimeout ==
    /\ last = Idle
    /\ h # 0
    /\ UNCHANGED h
    /\ \E gh \in 1..Len(gh_list), timeout \in U32Values, q \in QueryOutcomes :
        LET r == nflog_set_timeout(gh_list, errno, gh, timeout, q)
        IN  /\ UNCHANGED <<gh_list, nalloc, registered>>
            /\ errno' = r.errno
            /\ last' = [Idle EXCEPT !.op = "nflog_set_timeout", !.gh = gh,
                                    !.num = gh_list[gh].id, !.u32 = timeout,
                                    !.ret = r.ret, !.sent = r.sent]

SetQthresh ==
    /\ last = Idle
    /\ h # 0
    /\ UNCHANGED h
    /\ \E gh \in 1..Len(gh_list), qthresh \in U32Values, q \in QueryOutcomes :
        LET r == nflog_set_qthresh(gh_list, errno, gh, qthresh, q)
        IN  /\ UNCHANGED <<gh_list, nalloc, registered>>
            /\ errno' = r.errno
            /\ last' = [Idle EXCEPT !.op = "nflog_set_qthresh", !.gh = gh,
                                    !.num = gh_list[gh].id, !.u32 = qthresh,
                                    !.ret = r.ret, !.sent = r.sent]

SetNlbufsiz ==
    /\ last = Idle
    /\ h # 0
    /\ UNCHANGED h
    /\ \E gh \in 1..Len(gh_list), nlbufsiz \in U32Values, q \in QueryOutcomes,
          rcv \in RcvbufOutcomes :
        LET r == nflog_set_nlbufsiz(gh_list, errno, gh, nlbufsiz, q, rcv)
        IN  /\ UNCHANGED <<gh_list, nalloc, registered>>
            /\ errno' = r.errno
            /\ last' = [Idle EXCEPT !.op = "nflog_set_nlbufsiz", !.gh = gh,
                                    !.num = gh_list[gh].id, !.u32 = nlbufsiz,
                                    !.ret = r.ret, !.sent = r.sent,
                                    !.rcvbufsiz = r.rcvbufsiz]

SetFlags ==
    /\ last = Idle
    /\ h # 0
    /\ UNCHANGED h
    /\ \E gh \in 1..Len(gh_list), flags \in U16Values, q \in QueryOutcomes :
        LET r == nflog_set_flags(gh_list, errno, gh, flags, q)
        IN  /\ UNCHANGED <<gh_list, nalloc, registered>>
            /\ errno' = r.errno
            /\ last' = [Idle EXCEPT !.op = "nflog_set_flags", !.gh = gh,
                                    !.num = gh_list[gh].id, !.u16 = flags,
                                    !.ret = r.ret, !.sent = r.sent]

GetIndev ==
    /\ last = Idle
    /\ UNCHANGED h
    /\ \E nfad \in NfadRecords :
        /\ UNCHANGED <<gh_list, nalloc, errno, registered>>
        /\ last' = [Idle EXCEPT !.op = "nflog_get_indev", !.nfad = nfad,
                                !.val = nflog_get_indev(nfad)]

GetPhysindev ==
    /\ last = Idle
    /\ UNCHANGED h
    /\ \E nfad \in NfadRecords :
        /\ UNCHANGED <<gh_list, nalloc, errno, registered>>
        /\ last' = [Idle EXCEPT !.op = "nflog_get_physindev", !.nfad = nfad,
                                !.val = nflog_get_physindev(nfad)]

GetOutdev ==
    /\ last = Idle
    /\ UNCHANGED h
    /\ \E nfad \in NfadRecords :
        /\ UNCHANGED <<gh_list, nalloc, errno, registered>>
        /\ last' = [Idle EXCEPT !.op = "nflog_get_outdev", !.nfad = nfad,
                                !.val = nflog_get_outdev(nfad)]

GetPhysoutdev ==
    /\ last = Idle
    /\ UNCHANGED h
    /\ \E nfad \in NfadRecords :
        /\ UNCHANGED <<gh_list, nalloc, errno, registered>>
        /\ last' = [Idle EXCEPT !.op = "nflog_get_physoutdev", !.nfad = nfad,
                                !.val = nflog_get_physoutdev(nfad)]

GetTimestamp ==
    /\ last = Idle
    /\ UNCHANGED h
    /\ \E nfad \in NfadRecords, tv0 \in TvValues :
        LET r == nflog_get_timestamp(nfad, tv0)
        IN  /\ UNCHANGED <<gh_list, nalloc, errno, registered>>
            /\ last' = [Idle EXCEPT !.op = "nflog_get_timestamp", !.nfad = nfad,
                                    !.tv0 = tv0, !.tv = r.tv, !.ret = r.ret]

GetUid ==
    /\ last = Idle
    /\ UNCHANGED h
    /\ \E nfad \in NfadRecords, out0 \in OutValues :
        LET r == nflog_get_uid(nfad, out0)
        IN  /\ UNCHANGED <<gh_list, nalloc, errno, registered>>
            /\ last' = [Idle EXCEPT !.op = "nflog_get_uid", !.nfad = nfad,
                                    !.out0 = out0, !.out = r.out, !.ret = r.ret]

GetGid ==
    /\ last = Idle
    /\ UNCHANGED h
    /\ \E nfad \in NfadRecords, out0 \in OutValues :
        LET r == nflog_get_gid(nfad, out0)
        IN  /\ UNCHANGED <<gh_list, nalloc, errno, registered>>
            /\ last' = [Idle EXCEPT !.op = "nflog_get_gid", !.nfad = nfad,
                                    !.out0 = out0, !.out = r.out, !.ret = r.ret]

GetSeq ==
    /\ last = Idle
    /\ UNCHANGED h
    /\ \E nfad \in NfadRecords, out0 \in OutValues :
        LET r == nflog_get_seq(nfad, out0)
        IN  /\ UNCHANGED <<gh_list, nalloc, errno, registered>>
            /\ last' = [Idle EXCEPT !.op = "nflog_get_seq", !.nfad = nfad,
                                    !.out0 = out0, !.out = r.out, !.ret = r.ret]

GetSeqGlobal ==
    /\ last = Idle
    /\ UNCHANGED h
    /\ \E nfad \in NfadRecords, out0 \in OutValues :
        LET r == nflog_get_seq_global(nfad, out0)
        IN  /\ UNCHANGED <<gh_list, nalloc, errno, registered>>
            /\ last' = [Idle EXCEPT !.op = "nflog_get_seq_global", !.nfad = nfad,
                                    !.out0 = out0, !.out = r.out, !.ret = r.ret]

\* a payload of CTA_ID shorter than four bytes is followed in the buffer by
\* bytes of the next attribute or of the padding: behind is what they hold
GetCtid ==
    /\ last = Idle
    /\ UNCHANGED h
    /\ \E nfad \in NfadRecords, out0 \in OutValues,
          behind \in {<<0, 0, 0, 0>>, <<170, 187, 204, 221>>} :
        LET r == nflog_get_ctid(nfad, errno, out0, behind)
        IN  /\ UNCHANGED <<gh_list, nalloc, registered>>
            /\ errno' = r.errno
            /\ last' = [Idle EXCEPT !.op = "nflog_get_ctid", !.nfad = nfad,
                                    !.out0 = out0, !.out = r.out, !.ret = r.ret]

\* the hardware address loop of nflog_snprintf_xml reads past the attribute
\* the indices i of the hwph->hw_addr[i] that the loop of the hardware
\* element reads
hw_addr_reads(tb, flags) ==
    LET ph == nflog_get_msg_packet_hdr(tb)
        hwph == nflog_get_packet_hw(tb)
    IN  IF ph.present /\ hwph.present /\ "NFLOG_XML_HW" \in flags
        THEN 0..(ntohs(SubSeq(hwph.data, 1, 2)) - 1)
        ELSE {}

HwReadsBehind(tb, flags) ==
    /\ tb["NFULA_PACKET_HDR"].present
    /\ tb["NFULA_HWADDR"].present
    /\ "NFLOG_XML_HW" \in flags
    /\ ntohs(SubSeq(tb["NFULA_HWADDR"].data, 1, 2)) > Len(tb["NFULA_HWADDR"].data) - 4

\* time and localtime_r are called only under NFLOG_XML_TIME
SnprintfXml ==
    /\ last = Idle
    /\ UNCHANGED h
    /\ \E tb \in XmlRecords, flags \in XmlFlagSets, rem \in 0..MaxCap :
       \E tm \in (IF "NFLOG_XML_TIME" \in flags THEN Clocks ELSE {NoClock}),
          behind \in (IF HwReadsBehind(tb, flags) THEN BehindBytes ELSE {0}) :
        LET r == nflog_snprintf_xml([i \in 1..rem |-> Junk], rem, tb, flags, tm,
                                    behind, errno)
        IN  /\ UNCHANGED <<gh_list, nalloc, registered>>
            /\ errno' = r.errno
            /\ last' = [Idle EXCEPT !.op = "nflog_snprintf_xml", !.nfad = tb,
                                    !.flags = flags, !.cap = rem, !.tm = tm,
                                    !.behind = behind, !.xml = r.w.buf,
                                    !.trace = r.w.trace, !.ret = r.ret,
                                    !.hwread = hw_addr_reads(tb, flags)]

\* The library never reads errno; the application zeroises it before its
\* next call, as nflog_handle_packet's documentation asks, so that errno
\* after a call is what that call left.
\* nflog_close(h): the application gives up the session handle
Close ==
    /\ last = Idle
    /\ h # 0
    /\ \E closeRet \in {0, -1} :
        LET r == nflog_close(gh_list, nalloc, errno, closeRet)
        IN  /\ h' = r.h
            /\ gh_list' = r.gh_list
            /\ nalloc' = r.nalloc
            /\ errno' = r.errno
            /\ last' = [Idle EXCEPT !.op = "nflog_close", !.ret = r.ret,
                                    !.sent = r.sent, !.closed = r.closed]
            /\ UNCHANGED registered

\* nflog_open() by an application that holds no session
Open ==
    /\ last = Idle
    /\ h = 0
    /\ \E openOk, callocOk, subsysOk, cbOk \in BOOLEAN, again \in {0, -1} :
        LET r == nflog_open(gh_list, errno, openOk, callocOk, subsysOk, cbOk, again)
        IN  /\ h' = r.h
            /\ gh_list' = r.gh_list
            /\ errno' = r.errno
            /\ last' = [Idle EXCEPT !.op = "nflog_open", !.ret = r.h,
                                    !.opened = r.opened, !.closed = r.closed]
            /\ registered' = IF r.h # 0 THEN [g \in Groups |-> <<>>] ELSE registered
            /\ UNCHANGED nalloc

Return ==
    /\ last # Idle
    /\ last' = Idle
    /\ errno' = "0"
    /\ UNCHANGED <<gh_list, nalloc, registered, h>>

Next == BindGroup \/ UnbindGroup \/ CallbackRegister \/ HandlePacket \/ Return

Spec == Init /\ [][Next]_vars

\* The session configuring its groups and families: the commands of the
\* application that send one configuration message each.
NextCfg ==
    \/ BindGroup \/ UnbindGroup \/ BindPf \/ UnbindPf \/ SetMode \/ SetTimeout
    \/ SetQthresh \/ SetNlbufsiz \/ SetFlags \/ Return

SpecCfg == Init /\ [][NextCfg]_vars

\* A handler reading the fields of the message it was called for.
NextGet ==
    \/ GetIndev \/ GetPhysindev \/ GetOutdev \/ GetPhysoutdev \/ GetTimestamp
    \/ GetUid \/ GetGid \/ GetSeq \/ GetSeqGlobal \/ GetCtid \/ Return

SpecGet == Init /\ [][NextGet]_vars

\* A handler printing the message it was called for.
NextXml == SnprintfXml \/ Return

SpecXml == Init /\ [][NextXml]_vars

\* An application that closes its session and opens another, binding and
\* unbinding groups while it holds one.
NextSession == BindGroup \/ UnbindGroup \/ Close \/ Open \/ Return

SpecSession == Init /\ [][NextSession]_vars

(***************************************************************************)
(* Vocabulary of the properties below.                                     *)
(***************************************************************************)
\* the group ids held by a list of handles
GroupIds(list) == {list[i].id : i \in 1..Len(list)}
\* the positions of a list that hold group g
PositionsOf(list, g) == {i \in 1..Len(list) : list[i].id = g}
\* a list without its i-th element
Without(list, i) == SubSeq(list, 1, i - 1) \o SubSeq(list, i + 1, Len(list))
\* the group a resource id names: two bytes, most significant first
GroupOfWire(bytes) == 256 * bytes[1] + bytes[2]
\* the wire bytes of group g
WireOfGroup(g) == <<g \div 256, g % 256>>
\* the call a dispatch to the handle at position i of list makes for message k
CallTo(list, i, k, c) ==
    [cb |-> list[i].cb, gh |-> i, nfmsg |-> k, nfa |-> k, data |-> list[i].data,
     ret |-> c]

\* C1: nflog_bind_group of a group id already in the registry returns no
\* handle with errno EBUSY, sends no configuration command and leaves the
\* registry as it was: the same handles in the same order, each with the same
\* callback and user data.
C1_DuplicateBindFails ==
    [][(last'.op = "nflog_bind_group" /\ last'.num \in GroupIds(gh_list))
        => /\ last'.ret = 0
           /\ errno' = "EBUSY"
           /\ last'.sent = <<>>
           /\ gh_list' = gh_list
           /\ nalloc' = nalloc]_vars

\* a duplicate bind has failed on a registry of three handles, the group being
\* bound deeper than the head and holding a callback
C1_Witness ==
    /\ last.op = "nflog_bind_group"
    /\ last.ret = 0
    /\ errno = "EBUSY"
    /\ Len(gh_list) = 3
    /\ \E i \in 2..Len(gh_list) :
          gh_list[i].id = last.num /\ gh_list[i].cb \in Callbacks

\* C2: in every reachable state no two handles of the registry carry the
\* same group id.
C2_UniqueGroupIds ==
    \A i, j \in 1..Len(gh_list) : gh_list[i].id = gh_list[j].id => i = j

\* a third group has just been bound next to two others, after commands the
\* transport rejected and messages that were dispatched
C2_Witness ==
    /\ last.op = "nflog_bind_group"
    /\ last.ret # 0
    /\ Len(gh_list) = 3
    /\ \E i \in 1..Len(gh_list) : gh_list[i].cb \in Callbacks

\* C3: nflog_unbind_group sends one UnbindGroup command for the handle's
\* group; the handle leaves the registry and is released exactly when the
\* command is acknowledged; when it fails the registry is unchanged (group id,
\* callback and user data of the handle included) and a message for the group
\* is still dispatched to the handle's callback.
C3_UnbindOnlyOnAck ==
    [][last'.op = "nflog_unbind_group"
        => LET i == last'.gh
               ack == last'.sent[1].ret = 0
           IN  /\ Len(last'.sent) = 1
               /\ last'.sent[1].command = NFULNL_CFG_CMD_UNBIND
               /\ last'.sent[1].groupnum = gh_list[i].id
               /\ last'.ret = last'.sent[1].ret
               /\ ack => /\ gh_list' = Without(gh_list, i)
                         /\ nalloc' = nalloc - 1
               /\ ~ack => /\ gh_list' = gh_list
                          /\ nalloc' = nalloc
                          /\ gh_list[i].cb # NULL =>
                               \A c \in CbRets :
                                  __nflog_rcv_pkt(gh_list',
                                      [nlh |-> 1, res_id |-> WireOfGroup(gh_list[i].id)],
                                      c).calls = <<CallTo(gh_list, i, 1, c)>>]_vars

\* an unbind has failed and its handle is still in the registry with the
\* callback and user data it had
C3_Witness ==
    /\ last.op = "nflog_unbind_group"
    /\ last.ret < 0
    /\ last.gh \in 1..Len(gh_list)
    /\ gh_list[last.gh].id = last.num
    /\ gh_list[last.gh].cb \in Callbacks
    /\ gh_list[last.gh].data # NULL

\* C4: an acknowledged nflog_unbind_group of the handle at any position of
\* the registry removes exactly that handle: a lookup of its group id finds
\* nothing, and the other handles stay in the same relative order with the
\* same callback and user data.
C4_UnbindRemovesExactlyThatHandle ==
    [][(last'.op = "nflog_unbind_group" /\ last'.ret = 0)
        => LET i == last'.gh
           IN  /\ find_gh(gh_list', gh_list[i].id) = 0
               /\ gh_list[i].id \notin GroupIds(gh_list')
               /\ gh_list' = Without(gh_list, i)]_vars

\* the middle handle of three has been unbound
C4_Witness ==
    /\ last.op = "nflog_unbind_group"
    /\ last.ret = 0
    /\ last.gh = 2
    /\ Len(gh_list) = 2
    /\ last.num \notin GroupIds(gh_list)

\* C5: when the group is not in the registry and the BindGroup command fails
\* at the transport, nflog_bind_group returns no handle, keeps no handle
\* allocated, leaves the registry unchanged and leaves errno as the transport
\* set it.
C5_BindTransportFailure ==
    [][(/\ last'.op = "nflog_bind_group"
        /\ last'.num \notin GroupIds(gh_list)
        /\ last'.sent # <<>>
        /\ last'.sent[1].ret < 0)
        => /\ last'.ret = 0
           /\ gh_list' = gh_list
           /\ nalloc' = nalloc
           /\ errno' = last'.sent[1].err
           /\ errno' \in TransportErrnos]_vars

\* a BindGroup command has been rejected with EOPNOTSUPP while another group
\* was bound
C5_Witness ==
    /\ last.op = "nflog_bind_group"
    /\ last.ret = 0
    /\ last.sent # <<>>
    /\ last.sent[1].command = NFULNL_CFG_CMD_BIND
    /\ errno = "EOPNOTSUPP"
    /\ Len(gh_list) >= 1
    /\ last.num \notin GroupIds(gh_list)

\* the handle a message's resource id names, when the registry holds one with
\* a callback: the set of its positions (empty on a dispatch miss)
Handlers(bytes) ==
    {i \in PositionsOf(gh_list, GroupOfWire(bytes)) : gh_list[i].cb # NULL}

\* C6: for every message whose group id has no handle in the registry, or
\* whose handle has no callback (a handle bound and never given one
\* included), dispatch invokes no callback and returns -ENODEV to the
\* transport.
C6_MissReturnsENODEV ==
    last.op = "nflog_handle_packet"
    => \A k \in 1..Len(last.rcv) :
          Handlers(last.rcv[k].res_id) = {}
          => /\ last.rcv[k].calls = <<>>
             /\ last.rcv[k].ret = -ENODEV

\* a message has been dispatched for a group that is bound and was never
\* given a callback, while another group holds one
C6_Witness ==
    /\ last.op = "nflog_handle_packet"
    /\ \E k \in 1..Len(last.rcv) :
          LET g == GroupOfWire(last.rcv[k].res_id)
          IN  /\ g \in GroupIds(gh_list)
              /\ registered[g] = <<NULL, NULL>>
              /\ last.rcv[k].ret = -ENODEV
    /\ \E i \in 1..Len(gh_list) : gh_list[i].cb \in Callbacks

C8_DispatchCallsTheHandler ==
    last.op = "nflog_handle_packet"
    => \A k \in 1..Len(last.rcv) :
          \A i \in Handlers(last.rcv[k].res_id) :
             /\ Len(last.rcv[k].calls) = 1
             /\ last.rcv[k].calls[1] =
                    CallTo(gh_list, i, last.rcv[k].nlh, last.rcv[k].calls[1].ret)
             /\ last.rcv[k].calls[1].cb = registered[GroupOfWire(last.rcv[k].res_id)][1]
             /\ last.rcv[k].calls[1].data = registered[GroupOfWire(last.rcv[k].res_id)][2]
             /\ last.rcv[k].ret = last.rcv[k].calls[1].ret

\* a message for group 256 has been delivered to its callback with its user
\* data while group 1, the byte swap of 256, holds another callback
C8_Witness ==
    /\ last.op = "nflog_handle_packet"
    /\ \E k \in 1..Len(last.rcv) :
          /\ last.rcv[k].res_id = <<1, 0>>
          /\ Len(last.rcv[k].calls) = 1
          /\ last.rcv[k].calls[1].cb = "cbB"
          /\ last.rcv[k].calls[1].data = "d1"
          /\ last.rcv[k].ret = 1
    /\ \E i \in 1..Len(gh_list) : gh_list[i].id = 1 /\ gh_list[i].cb = "cbA"

\* C9: the messages of one buffer are dispatched in arrival order; a message
\* whose callback returns a negative value is the last one dispatched and the
\* call reports failure; after a callback that returns zero or more the next
\* message of the buffer is dispatched.
C9_InOrderUntilAbort ==
    last.op = "nflog_handle_packet"
    => /\ Len(last.rcv) <= Len(last.buf)
       /\ \A k \in 1..Len(last.rcv) :
             /\ last.rcv[k].nlh = k
             /\ last.rcv[k].res_id = last.buf[k]
             /\ \A c \in 1..Len(last.rcv[k].calls) :
                   /\ last.rcv[k].calls[c].nfmsg = k
                   /\ last.rcv[k].calls[c].ret < 0
                        => (k = Len(last.rcv) /\ last.ret < 0)
                   /\ (last.rcv[k].calls[c].ret >= 0 /\ k < Len(last.buf))
                        => Len(last.rcv) > k

\* in a buffer of two messages for groups with callbacks the first callback
\* returned a negative value and the second message was not dispatched
C9_Witness ==
    /\ last.op = "nflog_handle_packet"
    /\ Len(last.buf) = 2
    /\ Handlers(last.buf[1]) # {}
    /\ Handlers(last.buf[2]) # {}
    /\ Len(last.rcv) = 1
    /\ last.rcv[1].calls # <<>>
    /\ last.rcv[1].calls[1].ret < 0
    /\ last.ret = -1

\* C10: nflog_callback_register returns 0, replaces the callback and the
\* user data of the handle and changes nothing else (membership, order and
\* group ids of the registry, the other handles, the commands sent); every
\* message dispatched from then on to the group goes to the callback and
\* user data registered last, never to an earlier one.
C10_RegisterReplacesHandler ==
    /\ [][last'.op = "nflog_callback_register"
            => LET i == last'.gh
               IN  /\ last'.ret = 0
                   /\ last'.sent = <<>>
                   /\ nalloc' = nalloc
                   /\ gh_list' = [gh_list EXCEPT
                          ![i] = [id |-> gh_list[i].id, cb |-> last'.cb,
                                  data |-> last'.data]]]_vars
    /\ [](last.op = "nflog_handle_packet"
            => \A k \in 1..Len(last.rcv) :
                  \A c \in 1..Len(last.rcv[k].calls) :
                     <<last.rcv[k].calls[c].cb, last.rcv[k].calls[c].data>>
                        = registered[GroupOfWire(last.rcv[k].res_id)])

\* cbB and d1 have replaced an earlier callback and user data of a handle
\* that is not the only one of the registry
C10_Witness ==
    /\ last.op = "nflog_callback_register"
    /\ last.cb = "cbB"
    /\ last.data = "d1"
    /\ Len(gh_list) >= 2
    /\ gh_list[last.gh].cb = "cbB"
    /\ gh_list[last.gh].data = "d1"

(***************************************************************************)
(* Configuration messages (SpecCfg).                                       *)
(***************************************************************************)
\* C11: nflog_set_nlbufsiz returns exactly the status of the buffer-size
\* command; the request to resize the transport's receive buffer is made
\* only after the command succeeded, never after it failed, and whether the
\* resize itself succeeds or fails does not change the value returned.
C11_NlbufsizReturnsCommandStatus ==
    last.op = "nflog_set_nlbufsiz" =>
        /\ Len(last.sent) = 1
        /\ last.ret = last.sent[1].ret
        /\ (last.rcvbufsiz # <<>> => last.sent[1].ret >= 0)
        /\ (last.sent[1].ret < 0 => last.rcvbufsiz = <<>>)

\* the command was acknowledged, the resize failed, and the call returned
\* success all the same
C11_Witness ==
    /\ last.op = "nflog_set_nlbufsiz"
    /\ last.sent[1].ret = 0
    /\ Len(last.rcvbufsiz) = 1
    /\ ~last.rcvbufsiz[1].ok
    /\ last.ret = 0

\* the exact product of a small k and a uint32_t, in three 16-bit limbs,
\* most significant first
Times(k, v) ==
    LET lo == k * v[2]
        hi == k * v[1] + lo \div 65536
    IN  <<hi \div 65536, hi % 65536, lo % 65536>>

\* C12: for every 32-bit buffer size v, after a successful buffer-size
\* command the receive-buffer capacity requested from the transport is ten
\* times v.
C12_RcvbufTenTimes ==
    (last.op = "nflog_set_nlbufsiz" /\ last.sent[1].ret >= 0) =>
        /\ Len(last.rcvbufsiz) = 1
        /\ <<0>> \o last.rcvbufsiz[1].size = Times(10, last.u32)

\* the calls that address one group through its handle or its number
GroupTargetedOps ==
    {"nflog_bind_group", "nflog_unbind_group", "nflog_set_mode", "nflog_set_timeout",
     "nflog_set_qthresh", "nflog_set_nlbufsiz", "nflog_set_flags"}

\* C13: a message of nflog_bind_pf or nflog_unbind_pf carries group id 0
\* and the protocol family pf of the call, for every 16-bit pf; a message
\* of a group-targeted command carries the group id of the handle and
\* protocol family 0.
C13_ConfigMessagesTargeted ==
    \A i \in 1..Len(last.sent) :
        /\ last.op \in {"nflog_bind_pf", "nflog_unbind_pf"} =>
              (last.sent[i].groupnum = 0 /\ last.sent[i].pf = last.pf)
        /\ last.op \in GroupTargetedOps =>
              (last.sent[i].groupnum = last.num /\ last.sent[i].pf = 0)

\* what the receiver of a mode payload reads in it: the four bytes of
\* copy_range, most significant first, then the byte of copy_mode
DecodeMode(payload) ==
    [copy_range |-> <<payload[1] * 256 + payload[2], payload[3] * 256 + payload[4]>>,
     copy_mode |-> payload[5]]

\* C14: decoding the mode payload that nflog_set_mode encodes recovers the
\* copy_mode and the copy_range of the call, for every 8-bit mode and
\* 32-bit range.
C14_SetModeRoundTrip ==
    last.op = "nflog_set_mode" =>
        /\ Len(last.sent) = 1
        /\ last.sent[1].attr = "NFULA_CFG_MODE"
        /\ DecodeMode(last.sent[1].payload) =
              [copy_range |-> last.u32, copy_mode |-> last.mode]

\* the test program's call: NFULNL_COPY_PACKET with range 0xffff
C14_Witness ==
    /\ last.op = "nflog_set_mode"
    /\ last.mode = NFULNL_COPY_PACKET
    /\ last.u32 = <<0, 65535>>
    /\ last.sent[1].payload[3] = 255
    /\ last.ret = 0

(***************************************************************************)
(* Accessors of a received message (SpecGet).                              *)
(***************************************************************************)
\* the value of a 32-bit and of a 64-bit big-endian field, in 16-bit limbs
BigEndian32(b) == <<b[1] * 256 + b[2], b[3] * 256 + b[4]>>
BigEndian64(b) ==
    <<b[1] * 256 + b[2], b[3] * 256 + b[4], b[5] * 256 + b[6], b[7] * 256 + b[8]>>

\* the attribute each device-index accessor reports
DevAttrOf ==
    [nflog_get_indev |-> "NFULA_IFINDEX_INDEV",
     nflog_get_outdev |-> "NFULA_IFINDEX_OUTDEV",
     nflog_get_physindev |-> "NFULA_IFINDEX_PHYSINDEV",
     nflog_get_physoutdev |-> "NFULA_IFINDEX_PHYSOUTDEV"]

\* C15: each of the four device-index accessors returns exactly 0 when its
\* attribute is absent, and the attribute's 32-bit value converted from
\* network byte order when it is present.
C15_DeviceIndexAccessors ==
    last.op \in DOMAIN DevAttrOf =>
        LET a == last.nfad[DevAttrOf[last.op]]
        IN  IF a.present THEN last.val = BigEndian32(a.data)
            ELSE last.val = <<0, 0>>

\* the physical output device 0x12345678 of a message that has the other
\* device indices too
C15_Witness ==
    /\ last.op = "nflog_get_physoutdev"
    /\ last.nfad["NFULA_IFINDEX_PHYSOUTDEV"] = Attr(<<18, 52, 86, 120>>)
    /\ last.nfad["NFULA_IFINDEX_OUTDEV"].present
    /\ last.val = <<4660, 22136>>

\* the attribute each presence-checked 32-bit accessor reports
PresenceAttrOf ==
    [nflog_get_uid |-> "NFULA_UID", nflog_get_gid |-> "NFULA_GID",
     nflog_get_seq |-> "NFULA_SEQ", nflog_get_seq_global |-> "NFULA_SEQ_GLOBAL"]

\* C16: nflog_get_uid, nflog_get_gid, nflog_get_seq, nflog_get_seq_global
\* and nflog_get_timestamp return -1 and leave the caller's output as it was
\* when the attribute is absent; when it is present they return 0 and store
\* the value converted from network byte order (seconds and microseconds,
\* 64 bits each, for the timestamp).
C16_PresenceCheckedAccessors ==
    /\ last.op \in DOMAIN PresenceAttrOf =>
          LET a == last.nfad[PresenceAttrOf[last.op]]
          IN  IF a.present
              THEN last.ret = 0 /\ last.out = BigEndian32(a.data)
              ELSE last.ret = -1 /\ last.out = last.out0
    /\ last.op = "nflog_get_timestamp" =>
          LET a == last.nfad["NFULA_TIMESTAMP"]
          IN  IF a.present
              THEN /\ last.ret = 0
                   /\ last.tv.tv_sec = BigEndian64(SubSeq(a.data, 1, 8))
                   /\ last.tv.tv_usec = BigEndian64(SubSeq(a.data, 9, 16))
              ELSE last.ret = -1 /\ last.tv = last.tv0

\* no sequence number in the message: -1, and the caller's variable keeps
\* the value it had
C16_Witness ==
    /\ last.op = "nflog_get_seq"
    /\ ~last.nfad["NFULA_SEQ"].present
    /\ last.nfad["NFULA_SEQ_GLOBAL"].present
    /\ last.out0 = <<57005, 48879>>
    /\ last.out = <<57005, 48879>>
    /\ last.ret = -1

\* the nested attributes of NFULA_CT that are an id of four bytes
ValidCtIds(nfad) ==
    IF nfad["NFULA_CT"].present
    THEN {i \in 1..Len(nfad["NFULA_CT"].data) :
            /\ nfad["NFULA_CT"].data[i].type = "CTA_ID"
            /\ Len(nfad["NFULA_CT"].data[i].data) = 4}
    ELSE {}

\* C17: nflog_get_ctid returns a value (0, and the id stored) only when
\* NFULA_CT is present and holds an id sub-attribute of four bytes; when
\* NFULA_CT is absent, holds no id or holds an id of another size, it
\* returns -1 and leaves the caller's output as it was; and the call changes
\* nothing of the session that dispatches.
C17_CtidOnlyFromValidId ==
    /\ [](last.op = "nflog_get_ctid" =>
            /\ last.ret \in {0, -1}
            /\ last.ret = 0 =>
                  \E i \in ValidCtIds(last.nfad) :
                      last.out = BigEndian32(last.nfad["NFULA_CT"].data[i].data)
            /\ ValidCtIds(last.nfad) = {} => last.ret = -1
            /\ last.ret = -1 => last.out = last.out0)
    /\ [][last'.op = "nflog_get_ctid" =>
            UNCHANGED <<gh_list, nalloc, registered>>]_vars

\* an id of two bytes: unavailable, the caller's variable untouched
C17_Witness ==
    /\ last.op = "nflog_get_ctid"
    /\ last.nfad["NFULA_CT"] = Attr(<<[type |-> "CTA_ID", data |-> <<18, 52>>]>>)
    /\ last.out0 = <<57005, 48879>>
    /\ last.out = <<57005, 48879>>
    /\ last.ret = -1

(***************************************************************************)
(* Printing (SpecXml).                                                     *)
(***************************************************************************)
\* C18: for every message, flags and capacity N, 0 and 1 included, no
\* fragment of nflog_snprintf_xml stores a byte at an index of N or more of
\* the caller's buffer.
C18_NoWritePastCapacity ==
    last.op = "nflog_snprintf_xml" =>
        /\ Len(last.xml) = last.cap
        /\ \A i \in 1..Len(last.trace) :
              last.trace[i].n > 0 =>
                  last.trace[i].from + last.trace[i].n - 1 < last.cap

\* a buffer of one byte for a document of many fragments: only the NUL of
\* the first fragment is stored
C18_Witness ==
    /\ last.op = "nflog_snprintf_xml"
    /\ last.cap = 1
    /\ last.nfad = Rich
    /\ last.flags = XmlFlags
    /\ last.xml = <<NUL>>
    /\ Len(last.trace) > 20
    /\ last.ret > 200

\* the characters of a sequence of strings, one string after the other
RECURSIVE Concat(_)
Concat(strs) == IF strs = <<>> THEN <<>> ELSE Head(strs) \o Concat(Tail(strs))

\* the complete document of the last nflog_snprintf_xml call: what its
\* snprintf calls format, whatever the capacity
Document == Concat(xml_fragments(last.nfad, last.flags, last.tm, last.behind))

\* C19: the length nflog_snprintf_xml returns is the length of the complete
\* document for the message, the flags and the clock, whatever the capacity:
\* a return value above the capacity tells of a truncation, and a capacity
\* above the return value gives the complete document.
C19_ReturnsFullLength ==
    (last.op = "nflog_snprintf_xml" /\ last.ret >= 0) =>
        /\ last.ret = Len(Document)
        /\ last.ret > last.cap => last.xml # Document
        /\ last.cap > last.ret => SubSeq(last.xml, 1, last.ret) = Document

\* 53 characters asked of a buffer of 7
C19_Witness ==
    /\ last.op = "nflog_snprintf_xml"
    /\ last.nfad = HdrOnly
    /\ last.flags = {"NFLOG_XML_HW"}
    /\ last.cap = 7
    /\ last.ret = 53

\* the characters of an element's name
NameChars == {"a", "b", "c", "d", "e", "f", "g", "h", "i", "j", "k", "l", "m", "n", "o", "p", "q", "r", "s", "t", "u", "v", "w", "x", "y", "z"}

\* s from position i on completes a well-formed document: stack holds the
\* names of the open elements, mode says where in a tag position i is, name
\* is the part of the tag's name read so far
RECURSIVE WellFormedFrom(_, _, _, _, _)
WellFormedFrom(s, i, stack, name, mode) ==
    IF i > Len(s) THEN mode = "text" /\ stack = <<>>
    ELSE CASE mode = "text" ->
                IF s[i] = "<"
                THEN (stack # <<>> \/ i = 1) /\ WellFormedFrom(s, i + 1, stack, <<>>, "tag")
                ELSE /\ stack # <<>>
                     /\ s[i] \notin {"&", NUL, Junk}
                     /\ WellFormedFrom(s, i + 1, stack, <<>>, "text")
           [] mode = "tag" ->
                IF s[i] = "/"
                THEN WellFormedFrom(s, i + 1, stack, <<>>, "close")
                ELSE s[i] \in NameChars /\ WellFormedFrom(s, i + 1, stack, <<s[i]>>, "open")
           [] mode = "open" ->
                IF s[i] = ">"
                THEN WellFormedFrom(s, i + 1, Append(stack, name), <<>>, "text")
                ELSE s[i] \in NameChars
                     /\ WellFormedFrom(s, i + 1, stack, Append(name, s[i]), "open")
           [] mode = "close" ->
                IF s[i] = ">"
                THEN /\ stack # <<>>
                     /\ stack[Len(stack)] = name
                     /\ WellFormedFrom(s, i + 1, SubSeq(stack, 1, Len(stack) - 1),
                                       <<>>, "text")
                ELSE s[i] \in NameChars
                     /\ WellFormedFrom(s, i + 1, stack, Append(name, s[i]), "close")

\* s is one element, properly nested, that ends in </log>
WellFormedLog(s) ==
    /\ Len(s) >= 6
    /\ SubSeq(s, Len(s) - 5, Len(s)) = <<"<", "/", "l", "o", "g", ">">>
    /\ WellFormedFrom(s, 1, <<>>, <<>>, "text")

RECURSIVE CommonPrefix(_, _, _)
CommonPrefix(a, b, i) ==
    IF i < Len(a) /\ i < Len(b) /\ a[i + 1] = b[i + 1]
    THEN CommonPrefix(a, b, i + 1)
    ELSE i

\* the number of the document's characters that the buffer holds
Kept == CommonPrefix(last.xml, Document, 0)

\* the cut after k characters of the document falls between the two hex
\* digits of a byte: the bytes of the payload and of the hardware address
\* are the fragments of two characters
CutSplitsHexPair(k) ==
    \E i \in 1..Len(last.trace) :
        last.trace[i].size = 2 /\ last.trace[i].len - 1 = k

\* C21 as stated: whenever the length L returned is above the capacity N,
\* the first N bytes of the buffer are the first N bytes of the complete
\* document, and the cut does not fall between the two hex digits of a byte
\* of the payload or of the hardware address.
C21_TruncatedIsDocumentPrefix ==
    (last.op = "nflog_snprintf_xml" /\ last.ret > last.cap) =>
        /\ last.xml = SubSeq(Document, 1, last.cap)
        /\ ~CutSplitsHexPair(Kept)

\* C21, amended: whenever the length L returned is above the capacity N and
\* N is not 0, the first N - 1 bytes of the buffer are the first N - 1
\* bytes of the complete document and the last byte of the buffer is a NUL;
\* a buffer of capacity 0 is left as it was.
C21_TruncatedIsPrefixThenNul ==
    (last.op = "nflog_snprintf_xml" /\ last.ret > last.cap) =>
        IF last.cap = 0 THEN last.xml = <<>>
        ELSE /\ SubSeq(last.xml, 1, last.cap - 1) = SubSeq(Document, 1, last.cap - 1)
             /\ last.xml[last.cap] = NUL
             /\ Kept = last.cap - 1

\* <log><payload>dead</payload></log> asked of a buffer of 16 bytes: the
\* buffer ends in the d of de and a NUL
C21_Witness ==
    /\ last.op = "nflog_snprintf_xml"
    /\ last.nfad = [NoAttrs EXCEPT !["NFULA_PAYLOAD"] = Attr(<<222, 173>>)]
    /\ last.flags = {"NFLOG_XML_PAYLOAD"}
    /\ last.cap = 16
    /\ last.ret = 34
    /\ last.xml[15] = "d"
    /\ last.xml[16] = NUL
    /\ CutSplitsHexPair(Kept)

\* the text s occurs in the text t
Occurs(s, t) ==
    \E i \in 1..(Len(t) - Len(s) + 1) : SubSeq(t, i, i + Len(s) - 1) = s

\* the opening tag of every sub-element of <log> and the flag said to
\* select it
ElementFlags ==
    { <<<<"<", "w", "h", "e", "n", ">">>, "NFLOG_XML_TIME">>,
      <<<<"<", "p", "r", "e", "f", "i", "x", ">">>, "NFLOG_XML_PREFIX">>,
      <<<<"<", "h", "o", "o", "k", ">">>, "NFLOG_XML_HW">>,
      <<<<"<", "h", "w", ">">>, "NFLOG_XML_HW">>,
      <<<<"<", "m", "a", "r", "k", ">">>, "NFLOG_XML_MARK">>,
      <<<<"<", "i", "n", "d", "e", "v", ">">>, "NFLOG_XML_DEV">>,
      <<<<"<", "o", "u", "t", "d", "e", "v", ">">>, "NFLOG_XML_DEV">>,
      <<<<"<", "p", "h", "y", "s", "i", "n", "d", "e", "v", ">">>, "NFLOG_XML_PHYSDEV">>,
      <<<<"<", "p", "h", "y", "s", "o", "u", "t", "d", "e", "v", ">">>, "NFLOG_XML_PHYSDEV">>,
      <<<<"<", "c", "t", "i", "d", ">">>, "NFLOG_XML_CTID">>,
      <<<<"<", "p", "a", "y", "l", "o", "a", "d", ">">>, "NFLOG_XML_PAYLOAD">> }

HookTag == <<"<", "h", "o", "o", "k", ">">>
BareLog == <<"<", "l", "o", "g", ">", "<", "/", "l", "o", "g", ">">>

\* <log><hook>digits</hook></log>
LogWithHookOnly(t) ==
    LET open == <<"<", "l", "o", "g", ">", "<", "h", "o", "o", "k", ">">>
        close == <<"<", "/", "h", "o", "o", "k", ">", "<", "/", "l", "o", "g", ">">>
    IN  /\ Len(t) > Len(open) + Len(close)
        /\ SubSeq(t, 1, Len(open)) = open
        /\ SubSeq(t, Len(t) - Len(close) + 1, Len(t)) = close
        /\ \A i \in (Len(open) + 1)..(Len(t) - Len(close)) :
               t[i] \in {"0", "1", "2", "3", "4", "5", "6", "7", "8", "9"}

\* the text that a call which had room for the whole document left in the
\* buffer
WrittenText == SubSeq(last.xml, 1, last.ret)

\* C22 as stated: every sub-element of the output appears only if its flag
\* is in the flags argument, and with no flag the document is <log></log>
\* for every record.
C22_ElementsOnlyUnderFlag ==
    last.op = "nflog_snprintf_xml" =>
        /\ \A ef \in ElementFlags : Occurs(ef[1], last.xml) => ef[2] \in last.flags
        /\ (last.flags = {} /\ last.ret >= 0 /\ last.ret < last.cap) => WrittenText = BareLog

\* C22, amended: every sub-element other than <hook> appears only if its
\* flag is in the flags argument; <hook> appears only if the record has a
\* packet header, whatever the flags; with no flag the document is
\* <log></log> for a record without packet header and
\* <log><hook>h</hook></log> for a record with one.
C22_ElementsOnlyUnderFlagButHook ==
    last.op = "nflog_snprintf_xml" =>
        /\ \A ef \in ElementFlags :
               (ef[1] # HookTag /\ Occurs(ef[1], last.xml)) => ef[2] \in last.flags
        /\ Occurs(HookTag, last.xml) => last.nfad["NFULA_PACKET_HDR"].present
        /\ (last.flags = {} /\ last.ret >= 0 /\ last.ret < last.cap) =>
               IF last.nfad["NFULA_PACKET_HDR"].present
               THEN LogWithHookOnly(WrittenText)
               ELSE WrittenText = BareLog

\* a record with every attribute rendered with no flag: only the hook is
\* printed
C22_Witness ==
    /\ last.op = "nflog_snprintf_xml"
    /\ last.nfad = Rich
    /\ last.flags = {}
    /\ last.ret < last.cap
    /\ LogWithHookOnly(WrittenText)
    /\ WrittenText[12] = "3"

LowerHex == <<"0", "1", "2", "3", "4", "5", "6", "7", "8", "9", "a", "b", "c", "d", "e", "f">>

\* two lowercase hex digits for each byte, in order, nothing between them
RECURSIVE HexOf(_)
HexOf(bytes) ==
    IF bytes = <<>> THEN <<>>
    ELSE <<LowerHex[(Head(bytes) \div 16) + 1], LowerHex[(Head(bytes) % 16) + 1]>> \o HexOf(Tail(bytes))

PayloadElement(bytes) ==
    <<"<", "p", "a", "y", "l", "o", "a", "d", ">">> \o HexOf(bytes) \o
    <<"<", "/", "p", "a", "y", "l", "o", "a", "d", ">">>

\* the text t ends in the element el and </log>
EndsInElement(t, el) ==
    LET close == <<"<", "/", "l", "o", "g", ">">>
    IN  /\ Len(t) >= Len(el) + Len(close)
        /\ SubSeq(t, Len(t) - Len(close) - Len(el) + 1, Len(t) - Len(close)) = el
        /\ SubSeq(t, Len(t) - Len(close) + 1, Len(t)) = close

\* C23: for a record with a payload attribute of n bytes nflog_get_payload
\* returns n and those bytes, and nflog_snprintf_xml with the payload flag
\* emits <payload>, two lowercase hex digits for each byte in order, and
\* </payload>: as the last element of the document, and in the buffer when
\* the buffer has room for the document.
C23_PayloadBytesAndHex ==
    (/\ last.op = "nflog_snprintf_xml"
     /\ last.ret >= 0
     /\ last.nfad["NFULA_PAYLOAD"].present) =>
        LET bytes == last.nfad["NFULA_PAYLOAD"].data
        IN  /\ nflog_get_payload(last.nfad) = [ret |-> Len(bytes), data |-> bytes]
            /\ "NFLOG_XML_PAYLOAD" \in last.flags =>
                   /\ EndsInElement(Document, PayloadElement(bytes))
                   /\ last.ret = Len(Document)
                   /\ last.ret < last.cap => EndsInElement(WrittenText, PayloadElement(bytes))

\* the bytes 00 0f ff rendered into a buffer with room for them
C23_Witness ==
    /\ last.op = "nflog_snprintf_xml"
    /\ last.nfad["NFULA_PAYLOAD"] = Attr(<<0, 15, 255>>)
    /\ last.flags = {"NFLOG_XML_PAYLOAD"}
    /\ last.ret = 36
    /\ last.ret < last.cap
    /\ SubSeq(last.xml, 15, 20) = <<"0", "0", "0", "f", "f", "f">>
    /\ EndsInElement(WrittenText, PayloadElement(<<0, 15, 255>>))

\* what the timestamp attribute of a record can be
TimestampVariants ==
    {Absent, Attr(<<0, 0, 0, 0, 101, 76, 1, 2, 0, 0, 0, 0, 0, 15, 66, 63>>)}

\* C25: with the time flag the output depends on the clock, not on the
\* record's timestamp: the same call on a record that differs only in its
\* timestamp attribute (any value, or absent), at the same clock value and
\* with the same flags and capacity, leaves the same buffer and returns the
\* same length.
C25_WhenFromClockOnly ==
    (last.op = "nflog_snprintf_xml" /\ "NFLOG_XML_TIME" \in last.flags) =>
        \A ts \in TimestampVariants :
            LET other == nflog_snprintf_xml([i \in 1..last.cap |-> Junk], last.cap,
                                            [last.nfad EXCEPT !["NFULA_TIMESTAMP"] = ts],
                                            last.flags, last.tm, last.behind, "0")
            IN  /\ other.w.buf = last.xml
                /\ other.ret = last.ret

\* a record stamped 6 s after the epoch rendered at 23:59:59: the buffer shows the
\* hour of the clock
C25_Witness ==
    /\ last.op = "nflog_snprintf_xml"
    /\ last.nfad["NFULA_TIMESTAMP"] = Attr(<<0, 0, 0, 0, 0, 0, 0, 6, 0, 0, 0, 0, 0, 0, 0, 9>>)
    /\ last.flags = {"NFLOG_XML_TIME"}
    /\ last.tm.ok /\ last.tm.tm_hour = 23
    /\ last.cap = MaxCap
    /\ last.ret > 0
    /\ Occurs(<<"<", "h", "o", "u", "r", ">", "2", "3", "<", "/", "h", "o", "u", "r", ">">>, last.xml)

\* the counters before fragment i of the last call: those the call starts
\* with, or those after fragment i - 1
CountersBefore(i) ==
    IF i = 1 THEN [rem |-> last.cap, offset |-> 0, len |-> 0]
    ELSE [rem |-> last.trace[i - 1].rem, offset |-> last.trace[i - 1].offset,
          len |-> last.trace[i - 1].len]

\* the sum of the full lengths of the fragments 1..i
RECURSIVE SumOfSizes(_)
SumOfSizes(i) == IF i = 0 THEN 0 ELSE SumOfSizes(i - 1) + last.trace[i].size

\* C26: after every fragment of one nflog_snprintf_xml call, write offset +
\* remaining capacity is the initial capacity, the write offset is at most
\* the logical length, and the logical length is the sum of the full
\* lengths of the fragments so far; a fragment that finds the remaining
\* capacity at zero leaves it at zero, does not move the write offset,
\* stores no byte, and adds its full length to the logical length.
C26_WriterCountersInStep ==
    last.op = "nflog_snprintf_xml" =>
        \A i \in 1..Len(last.trace) :
            LET before == CountersBefore(i)
                after == last.trace[i]
            IN  /\ after.offset + after.rem = last.cap
                /\ after.rem >= 0
                /\ after.offset <= after.len
                /\ after.len = SumOfSizes(i)
                /\ before.rem = 0 =>
                       /\ after.rem = 0
                       /\ after.offset = before.offset
                       /\ after.n = 0
                       /\ after.len = before.len + after.size

\* a buffer that the third fragment fills: the later fragments store
\* nothing and the length goes on growing
C26_Witness ==
    /\ last.op = "nflog_snprintf_xml"
    /\ last.cap = 12
    /\ Len(last.trace) > 5
    /\ last.trace[1].rem > 0
    /\ last.trace[2].rem = 0
    /\ last.trace[3].n = 0
    /\ last.trace[Len(last.trace)].offset = 12
    /\ last.trace[Len(last.trace)].len > last.trace[3].len
    /\ last.ret = last.trace[Len(last.trace)].len

\* C28: rendering the hardware address, nflog_snprintf_xml reads only the
\* address bytes at indices 0..7 of the hardware-address record, whatever
\* the address length the record declares.
C28_HwReadsWithinEightBytes ==
    (last.op = "nflog_snprintf_xml" /\ "NFLOG_XML_HW" \in last.flags) =>
        last.hwread \subseteq 0..7

\* the kernel's set of bound groups after it has acknowledged, in order,
\* those of the commands msgs that the transport reports acknowledged: a
\* group is in it when the last acknowledged command for it was a bind
RECURSIVE KernelAfter(_, _)
KernelAfter(bound, msgs) ==
    IF msgs = <<>> THEN bound
    ELSE LET m == Head(msgs)
             next == IF m.ret # 0 THEN bound
                     ELSE IF m.command = NFULNL_CFG_CMD_BIND THEN bound \cup {m.groupnum}
                     ELSE IF m.command = NFULNL_CFG_CMD_UNBIND THEN bound \ {m.groupnum}
                     ELSE bound
         IN  KernelAfter(next, Tail(msgs))

\* C27: the group ids of the registry are the groups whose most recent
\* acknowledged group command was a bind: none at the start, and every call
\* changes the registry's ids as the commands it got acknowledged change the
\* kernel's set (a rejected or unsent command changes neither).
C27_RegistryTracksAcknowledged ==
    /\ GroupIds(gh_list) = {}
    /\ [][GroupIds(gh_list') = KernelAfter(GroupIds(gh_list), last'.sent)]_vars

\* two groups bound, then an unbind of one of them that the transport
\* rejects: both are still in the registry
C27_Witness ==
    /\ last.op = "nflog_unbind_group"
    /\ last.ret < 0
    /\ Len(last.sent) = 1
    /\ last.sent[1].command = NFULNL_CFG_CMD_UNBIND
    /\ Cardinality(GroupIds(gh_list)) = 2
    /\ last.num \in GroupIds(gh_list)

C29_FailedOpenClosesOnce ==
    (last.op = "nflog_open" /\ last.ret = 0) =>
        /\ h = 0
        /\ Len(last.closed) = (IF last.opened THEN 1 ELSE 0)
====
